---- MODULE Spec2Model ----
(***************************************************************************)
(* Model of src/src/dtype/ops/de.rs: the serde decode engine of `DType`.   *)
(*                                                                         *)
(* One decode call is a conversation between the engine and a target (a    *)
(* serde Visitor / DeserializeSeed).  The target is the environment: it    *)
(* holds a deserializer (`handle`), asks it for a shape (one action per    *)
(* deserialize_* method), and is called back with a scalar, with a cursor  *)
(* it then drives (next_element / next_key / next_value), with the same    *)
(* value again (visit_some) or with an enum access.  The engine's code is  *)
(* the operators named after the source functions; the `*_ref` operators   *)
(* are the borrowed (`&DType`) twins of the owned ones.                    *)
(***************************************************************************)
EXTENDS Integers, Sequences, FiniteSets, TLC

VARIABLES
  tree,     \* the value tree the caller handed to the decode call
  mode,     \* "owned" (impl Deserializer for DType) or "borrowed" (for &DType)
  pc,       \* where the target stands: "de" | "seq" | "map" | "enum" | "variant" | "done" | "panic"
  handle,   \* Option<DType>: the deserializer the target holds when pc = "de"
  cur,      \* the SeqDeserializer / MapDeserializer the target is driving
  access,   \* the EnumDeserializer / VariantDeserializer the target holds
  frames,   \* cursors suspended while one of their elements or values is decoded
  ret,      \* the Result last returned to the target (the call's result when pc = "done")
  ev,       \* history: the engine operation that ran last, with its arguments
  features  \* the cargo features the crate was built with (#[cfg(feature = ...)])

vars == <<tree, mode, pc, handle, cur, access, frames, ret, ev, features>>

----------------------------------------------------------------------------
(* Bounds of the model.                                                    *)

\* longest Array and largest Object among the inputs
MaxLen == 2
\* how many next_element / next_key calls a target makes after "exhausted"
MaxExtra == 2

----------------------------------------------------------------------------
(* The value model: enum DType.                                            *)

Null == [tag |-> "Null"]
Boolean(b) == [tag |-> "Boolean", b |-> b]
Number(n) == [tag |-> "Number", n |-> n]
String(s) == [tag |-> "String", s |-> s]
Array(items) == [tag |-> "Array", items |-> items]
\* a Map<String, DType>: its entries <<key, value>> in iteration order
Object(entries) == [tag |-> "Object", entries |-> entries]
DateTime == [tag |-> "DateTime"]

\* Option<T>
None == [some |-> FALSE]
Some(v) == [some |-> TRUE, v |-> v]

\* the unit value ()
Unit == [unit |-> TRUE]

\* Result<T, Error>; NoRet: the target has not been handed a Result yet
Ok(v) == [st |-> "ok", v |-> v]
Err(e) == [st |-> "err", e |-> e]
NoRet == [st |-> "pending"]

Modes == {"owned", "borrowed"}

\* the build configurations: both features are off unless asked for
DefaultFeatures == [arbitrary_precision |-> FALSE, raw_value |-> FALSE]
FeatureSets == [arbitrary_precision : BOOLEAN, raw_value : BOOLEAN]

\* crate::number::TOKEN and crate::raw::TOKEN: the reserved capsule keys
NumberToken == "$number::TOKEN"
RawToken == "$raw::TOKEN"

----------------------------------------------------------------------------
(* The inputs: every tree the model decodes.                               *)

\* key texts and variant names
Names == {"A", "B", "Z"}

\* the scalars at the top level and as enum payloads
Scalars ==
  {Null, Boolean(TRUE), Number(0), Number(7), String(""), String("A"),
   String("Z"), DateTime}

\* the elements of the Arrays and the values of the Objects
Elems == {Null, Number(0), String("A")}
EntryValues == {Null, Number(0)}

SeqsUpTo(S, n) == UNION {[1..k -> S] : k \in 0..n}

Arrays == {Array(s) : s \in SeqsUpTo(Elems, MaxLen)}

\* key-unique entry lists
DistinctKeys(es) == \A i, j \in 1..Len(es) : i # j => es[i][1] # es[j][1]
Objects ==
  {Object(es) : es \in {e \in SeqsUpTo(Names \X EntryValues, MaxLen) : DistinctKeys(e)}}

\* the payload of an externally tagged variant
Payloads ==
  Scalars \cup {Array(<<>>), Array(<<Null>>), Array(<<Number(0), String("A")>>)}
          \cup {Object(<<>>), Object(<<<<"A", Number(0)>>>>),
                Object(<<<<"A", Null>>, <<"B", Number(0)>>>>)}
Tagged == {Object(<<<<k, p>>>>) : k \in Names, p \in Payloads}

\* one level of nesting below an Array, for the cursors that suspend
Nested ==
  {Array(<<Array(<<Null>>), Boolean(TRUE)>>),
   Array(<<Object(<<<<"A", Null>>>>), DateTime>>),
   Array(<<Object(<<<<"A", DateTime>>>>)>>)}

Values == Scalars \cup Arrays \cup Objects \cup Tagged \cup Nested

----------------------------------------------------------------------------
(* Errors: the constructors of serde::de::Error the engine uses.           *)

invalid_type(unexp, exp) == [ctor |-> "invalid_type", unexp |-> unexp, exp |-> exp]
invalid_value(unexp, exp) == [ctor |-> "invalid_value", unexp |-> unexp, exp |-> exp]
invalid_length(len, exp) == [ctor |-> "invalid_length", len |-> len, exp |-> exp]
custom(msg) == [ctor |-> "custom", msg |-> msg]
\* raised by a target's variant-identifier seed, never by the engine
unknown_variant(name) == [ctor |-> "unknown_variant", name |-> name]

\* serde::de::Unexpected: Unit, Seq, Map, UnitVariant, Other(..) carry nothing
\* of the value; Bool and Str carry the scalar itself
Unexpected(kind) == [kind |-> kind]
Unexpected_Bool(b) == [kind |-> "Bool", b |-> b]
Unexpected_Str(s) == [kind |-> "Str", s |-> s]
\* n.unexpected() of the Number collaborator: the number, by its sign and kind
Number_unexpected(n) == [kind |-> "Number", n |-> n]

\* DType::unexpected
unexpected(self) ==
  CASE self.tag = "Null" -> Unexpected("Unit")
    [] self.tag = "Boolean" -> Unexpected_Bool(self.b)
    [] self.tag = "Number" -> Number_unexpected(self.n)
    [] self.tag = "String" -> Unexpected_Str(self.s)
    [] self.tag = "Array" -> Unexpected("Seq")
    [] self.tag = "Object" -> Unexpected("Map")
    [] self.tag = "DateTime" -> Unexpected("Other(datetime)")

\* DType::invalid_type(&visitor): the expectation is the visitor's own text
self_invalid_type(self) == invalid_type(unexpected(self), "visitor")

----------------------------------------------------------------------------
(* What a deserialize_* method does with the visitor it was given.         *)

\* returns Err(e) without calling the visitor
Fail(e) == [k |-> "fail", e |-> e]
\* calls a scalar callback of the visitor: visit_unit, visit_bool, visit_string, ...
Visit(cb, arg) == [k |-> "visit", cb |-> cb, arg |-> arg]
\* n.deserialize_any(visitor): the Number collaborator takes over
NumberAny(n) == [k |-> "visit", cb |-> "Number::deserialize_any", arg |-> Number(n)]
\* visit_array(v, visitor) / visit_array_ref(v, visitor)
VisitArray(v) == [k |-> "visit_array", array |-> v]
\* visit_object(v, visitor) / visit_object_ref(v, visitor)
VisitObject(v) == [k |-> "visit_object", object |-> v]
\* visitor.visit_some(self)
VisitSome(self) == [k |-> "visit_some", self |-> self]
\* visitor.visit_enum(EnumDeserializer { variant, value })
VisitEnum(variant, value) == [k |-> "visit_enum", variant |-> variant, value |-> value]
\* todo!()
Todo == [k |-> "todo"]
\* n.$method(visitor): the Number collaborator decodes at the width asked for
NumberMethod(method, n) ==
  [k |-> "visit", cb |-> "Number::$method", arg |-> Number(n), method |-> method]
\* visitor.visit_newtype_struct(self)
VisitNewtypeStruct(self) == [k |-> "visit_newtype_struct", self |-> self]
\* visitor.visit_map(OwnedRawDeserializer { raw_value: Some(self.to_string()) })
VisitRaw(self) ==
  [k |-> "visit", cb |-> "visit_map(OwnedRawDeserializer)", arg |-> self]

\* of the twelve methods deserialize_number! / deserialize_value_ref_number!
\* define, one signed, one unsigned, one float and one 128-bit instance
NumberMethods ==
  {"deserialize_i8", "deserialize_u64", "deserialize_f64", "deserialize_u128"}

----------------------------------------------------------------------------
(* impl Deserializer for DType (owned).                                    *)

\* seeded fault: the timestamp is handed over as text instead of todo!()
visit_datetime_as_text(datetime) == Visit("visit_string", String(""))

visit_datetime(datetime) == Todo

deserialize_any(self) ==
  CASE self.tag = "Null" -> Visit("visit_unit", Null)
    [] self.tag = "Boolean" -> Visit("visit_bool", self)
    [] self.tag = "Number" -> NumberAny(self.n)
    [] self.tag = "String" -> Visit("visit_string", self)
    [] self.tag = "Array" -> VisitArray(self.items)
    [] self.tag = "Object" -> VisitObject(self.entries)
    [] self.tag = "DateTime" -> visit_datetime(self)

\* seeded fault: an empty String counts as absent too
deserialize_option_empty_absent(self) ==
  IF self.tag = "Null" \/ (self.tag = "String" /\ self.s = "")
    THEN Visit("visit_none", Null)
    ELSE VisitSome(self)

deserialize_option(self) ==
  IF self.tag = "Null" THEN Visit("visit_none", Null) ELSE VisitSome(self)

\* seeded fault: the second entry is not looked for
deserialize_enum_first_entry(self) ==
  CASE self.tag = "Object" ->
         IF Len(self.entries) = 0
           THEN Fail(invalid_value(Unexpected("Map"), "map with a single key"))
           ELSE VisitEnum(self.entries[1][1], Some(self.entries[1][2]))
    [] self.tag = "String" -> VisitEnum(self.s, None)
    [] OTHER -> Fail(invalid_type(unexpected(self), "string or map"))

deserialize_enum(self) ==
  CASE self.tag = "Object" ->
         IF Len(self.entries) = 0
           THEN Fail(invalid_value(Unexpected("Map"), "map with a single key"))
           ELSE IF Len(Tail(self.entries)) > 0
             THEN Fail(invalid_value(Unexpected("Map"), "map with a single key"))
             ELSE VisitEnum(self.entries[1][1], Some(self.entries[1][2]))
    [] self.tag = "String" -> VisitEnum(self.s, None)
    [] OTHER -> Fail(invalid_type(unexpected(self), "string or map"))

deserialize_bool(self) ==
  IF self.tag = "Boolean" THEN Visit("visit_bool", self) ELSE Fail(self_invalid_type(self))

deserialize_string(self) ==
  IF self.tag = "String" THEN Visit("visit_string", self) ELSE Fail(self_invalid_type(self))

deserialize_unit(self) ==
  IF self.tag = "Null" THEN Visit("visit_unit", Null) ELSE Fail(self_invalid_type(self))

deserialize_seq(self) ==
  IF self.tag = "Array" THEN VisitArray(self.items) ELSE Fail(self_invalid_type(self))

deserialize_map(self) ==
  IF self.tag = "Object" THEN VisitObject(self.entries) ELSE Fail(self_invalid_type(self))

deserialize_struct(self) ==
  CASE self.tag = "Array" -> VisitArray(self.items)
    [] self.tag = "Object" -> VisitObject(self.entries)
    [] OTHER -> Fail(self_invalid_type(self))


\* seeded fault: the arbitrary_precision fallback is taken in every build
deserialize_number_fallback(self, method, arbitrary_precision) ==
  IF self.tag = "Number"
    THEN IF arbitrary_precision THEN NumberMethod(method, self.n) ELSE NumberAny(self.n)
    ELSE deserialize_any(self)

\* deserialize_number!($method), under either cfg
deserialize_number(self, method, arbitrary_precision) ==
  IF ~arbitrary_precision
    THEN IF self.tag = "Number" THEN NumberAny(self.n) ELSE Fail(self_invalid_type(self))
    ELSE IF self.tag = "Number" THEN NumberMethod(method, self.n) ELSE deserialize_any(self)

deserialize_newtype_struct(self, name, raw_value) ==
  IF raw_value /\ name = RawToken THEN VisitRaw(self) ELSE VisitNewtypeStruct(self)

deserialize_char(self) == deserialize_string(self)

deserialize_str(self) == deserialize_string(self)

\* seeded fault: an Object is taken for a byte sequence too
deserialize_byte_buf_any(self) ==
  CASE self.tag = "String" -> Visit("visit_string", self)
    [] self.tag = "Array" -> VisitArray(self.items)
    [] self.tag = "Object" -> VisitObject(self.entries)
    [] OTHER -> Fail(self_invalid_type(self))

deserialize_byte_buf(self) ==
  CASE self.tag = "String" -> Visit("visit_string", self)
    [] self.tag = "Array" -> VisitArray(self.items)
    [] OTHER -> Fail(self_invalid_type(self))

deserialize_bytes(self) == deserialize_byte_buf(self)

deserialize_unit_struct(self) == deserialize_unit(self)

deserialize_tuple(self) == deserialize_seq(self)

deserialize_tuple_struct(self) == deserialize_seq(self)

deserialize_identifier(self) == deserialize_string(self)

\* drop(self); visitor.visit_unit()
deserialize_ignored_any(self) == Visit("visit_unit", Null)

----------------------------------------------------------------------------
(* impl Deserializer for &DType (borrowed).                                *)

visit_datetime_ref(datetime) == Todo

deserialize_any_ref(self) ==
  CASE self.tag = "Null" -> Visit("visit_unit", Null)
    [] self.tag = "Boolean" -> Visit("visit_bool", self)
    [] self.tag = "Number" -> NumberAny(self.n)
    [] self.tag = "String" -> Visit("visit_borrowed_str", self)
    [] self.tag = "Array" -> VisitArray(self.items)
    [] self.tag = "Object" -> VisitObject(self.entries)
    [] self.tag = "DateTime" -> visit_datetime_ref(self)

deserialize_option_ref(self) ==
  IF self.tag = "Null" THEN Visit("visit_none", Null) ELSE VisitSome(self)

deserialize_enum_ref(self) ==
  CASE self.tag = "Object" ->
         IF Len(self.entries) = 0
           THEN Fail(invalid_value(Unexpected("Map"), "map with a single key"))
           ELSE IF Len(Tail(self.entries)) > 0
             THEN Fail(invalid_value(Unexpected("Map"), "map with a single key"))
             ELSE VisitEnum(self.entries[1][1], Some(self.entries[1][2]))
    [] self.tag = "String" -> VisitEnum(self.s, None)
    [] OTHER -> Fail(invalid_type(unexpected(self), "string or map"))

deserialize_bool_ref(self) ==
  IF self.tag = "Boolean" THEN Visit("visit_bool", self) ELSE Fail(self_invalid_type(self))

deserialize_str_ref(self) ==
  IF self.tag = "String"
    THEN Visit("visit_borrowed_str", self)
    ELSE Fail(self_invalid_type(self))

deserialize_unit_ref(self) ==
  IF self.tag = "Null" THEN Visit("visit_unit", Null) ELSE Fail(self_invalid_type(self))

deserialize_seq_ref(self) ==
  IF self.tag = "Array" THEN VisitArray(self.items) ELSE Fail(self_invalid_type(self))

deserialize_map_ref(self) ==
  IF self.tag = "Object" THEN VisitObject(self.entries) ELSE Fail(self_invalid_type(self))

deserialize_struct_ref(self) ==
  CASE self.tag = "Array" -> VisitArray(self.items)
    [] self.tag = "Object" -> VisitObject(self.entries)
    [] OTHER -> Fail(self_invalid_type(self))


\* deserialize_value_ref_number!($method), under either cfg; the i128 and u128
\* methods of this impl are made by deserialize_number!, which reads the same
deserialize_value_ref_number(self, method, arbitrary_precision) ==
  IF ~arbitrary_precision
    THEN IF self.tag = "Number" THEN NumberAny(self.n) ELSE Fail(self_invalid_type(self))
    ELSE IF self.tag = "Number" THEN NumberMethod(method, self.n) ELSE deserialize_any_ref(self)

deserialize_newtype_struct_ref(self, name, raw_value) ==
  IF raw_value /\ name = RawToken THEN VisitRaw(self) ELSE VisitNewtypeStruct(self)

deserialize_char_ref(self) == deserialize_str_ref(self)

deserialize_string_ref(self) == deserialize_str_ref(self)

deserialize_bytes_ref(self) ==
  CASE self.tag = "String" -> Visit("visit_borrowed_str", self)
    [] self.tag = "Array" -> VisitArray(self.items)
    [] OTHER -> Fail(self_invalid_type(self))

deserialize_byte_buf_ref(self) == deserialize_bytes_ref(self)

deserialize_unit_struct_ref(self) == deserialize_unit_ref(self)

deserialize_tuple_ref(self) == deserialize_seq_ref(self)

deserialize_tuple_struct_ref(self) == deserialize_seq_ref(self)

deserialize_identifier_ref(self) == deserialize_str_ref(self)

deserialize_ignored_any_ref(self) == Visit("visit_unit", Null)

----------------------------------------------------------------------------
(* SeqDeserializer / SeqRefDeserializer and visit_array / visit_array_ref. *)

SeqDeserializer_new(vec) == [iter |-> vec]

\* next_element_seed up to the seed's call: the cursor afterwards and the
\* element handed to seed.deserialize (None: the answer is Ok(None))
next_element_seed(self) ==
  IF Len(self.iter) > 0
    THEN [self |-> [self EXCEPT !.iter = Tail(@)], value |-> Some(Head(self.iter))]
    ELSE [self |-> self, value |-> None]

\* seeded fault: the error reports what is left instead of `len`
visit_array_remaining(len, deserializer, seq) ==
  LET remaining == Len(deserializer.iter)
  IN  IF remaining = 0
        THEN Ok(seq)
        ELSE Err(invalid_length(remaining, "fewer elements in array"))

\* visit_array after visitor.visit_seq returned Ok(seq)
visit_array(len, deserializer, seq) ==
  LET remaining == Len(deserializer.iter)
  IN  IF remaining = 0
        THEN Ok(seq)
        ELSE Err(invalid_length(len, "fewer elements in array"))

SeqRefDeserializer_new(slice) == [iter |-> slice]

next_element_seed_ref(self) ==
  IF Len(self.iter) > 0
    THEN [self |-> [self EXCEPT !.iter = Tail(@)], value |-> Some(Head(self.iter))]
    ELSE [self |-> self, value |-> None]

\* seeded fault: the borrowed twin forgets the check
visit_array_ref_unchecked(len, deserializer, seq) == Ok(seq)

\* visit_array_ref after visitor.visit_seq returned Ok(seq)
visit_array_ref(len, deserializer, seq) ==
  LET remaining == Len(deserializer.iter)
  IN  IF remaining = 0
        THEN Ok(seq)
        ELSE Err(invalid_length(len, "fewer elements in array"))

----------------------------------------------------------------------------
(* MapDeserializer / MapRefDeserializer and visit_object / visit_object_ref. *)

MapDeserializer_new(map) == [iter |-> map, value |-> None]

\* next_key_seed up to the seed's call: the cursor afterwards and the key
\* handed, inside a MapKeyDeserializer, to seed.deserialize
next_key_seed(self) ==
  IF Len(self.iter) > 0
    THEN [self |-> [iter |-> Tail(self.iter), value |-> Some(Head(self.iter)[2])],
          key |-> Some(Head(self.iter)[1])]
    ELSE [self |-> self, key |-> None]

\* next_value_seed up to the seed's call: the cursor after value.take() and
\* the value taken (None: the answer is Err(custom("value is missing")))
next_value_seed(self) ==
  [self |-> [self EXCEPT !.value = None], value |-> self.value]

\* seeded fault: a value left in the buffer counts as unconsumed too
visit_object_needs_values(len, deserializer, map) ==
  LET remaining == Len(deserializer.iter) + (IF deserializer.value.some THEN 1 ELSE 0)
  IN  IF remaining = 0
        THEN Ok(map)
        ELSE Err(invalid_length(len, "fewer elements in map"))

\* visit_object after visitor.visit_map returned Ok(map)
visit_object(len, deserializer, map) ==
  LET remaining == Len(deserializer.iter)
  IN  IF remaining = 0
        THEN Ok(map)
        ELSE Err(invalid_length(len, "fewer elements in map"))

MapRefDeserializer_new(map) == [iter |-> map, value |-> None]

next_key_seed_ref(self) ==
  IF Len(self.iter) > 0
    THEN [self |-> [iter |-> Tail(self.iter), value |-> Some(Head(self.iter)[2])],
          key |-> Some(Head(self.iter)[1])]
    ELSE [self |-> self, key |-> None]

next_value_seed_ref(self) ==
  [self |-> [self EXCEPT !.value = None], value |-> self.value]

\* seeded fault: the check is skipped
visit_object_ref_unchecked(len, deserializer, map) == Ok(map)

\* visit_object_ref after visitor.visit_map returned Ok(map)
visit_object_ref(len, deserializer, map) ==
  LET remaining == Len(deserializer.iter)
  IN  IF remaining = 0
        THEN Ok(map)
        ELSE Err(invalid_length(len, "fewer elements in map"))

----------------------------------------------------------------------------
(* MapKeyDeserializer and BorrowedCowStrDeserializer: the decoder a key     *)
(* seed is handed by next_key_seed.                                        *)

\* Cow<'de, str>
Cow_Owned(s) == [cow |-> "Owned", s |-> s]
Cow_Borrowed(s) == [cow |-> "Borrowed", s |-> s]

\* a native integer handed to visit_i8 .. visit_u64
Integer(n) == [tag |-> "Integer", n |-> n]

\* the key texts the key decoder is run on, and the characters of each
KeyTexts ==
  {"", "A", "4x", "-", "+", "0", "-0", "+7", "007", "42", "127", "128", "-128",
   "-129", "255", "256", "-1", "32767", "32768", "-32768", "-32769", "65535",
   "65536"}
Chars(text) ==
  CASE text = "" -> <<>>
    [] text = "A" -> <<"A">>
    [] text = "4x" -> <<"4", "x">>
    [] text = "-" -> <<"-">>
    [] text = "+" -> <<"+">>
    [] text = "0" -> <<"0">>
    [] text = "-0" -> <<"-", "0">>
    [] text = "+7" -> <<"+", "7">>
    [] text = "007" -> <<"0", "0", "7">>
    [] text = "42" -> <<"4", "2">>
    [] text = "127" -> <<"1", "2", "7">>
    [] text = "128" -> <<"1", "2", "8">>
    [] text = "-128" -> <<"-", "1", "2", "8">>
    [] text = "-129" -> <<"-", "1", "2", "9">>
    [] text = "255" -> <<"2", "5", "5">>
    [] text = "256" -> <<"2", "5", "6">>
    [] text = "-1" -> <<"-", "1">>
    [] text = "32767" -> <<"3", "2", "7", "6", "7">>
    [] text = "32768" -> <<"3", "2", "7", "6", "8">>
    [] text = "-32768" -> <<"-", "3", "2", "7", "6", "8">>
    [] text = "-32769" -> <<"-", "3", "2", "7", "6", "9">>
    [] text = "65535" -> <<"6", "5", "5", "3", "5">>
    [] text = "65536" -> <<"6", "5", "5", "3", "6">>

\* char::to_digit(10)
to_digit ==
  ("0" :> 0) @@ ("1" :> 1) @@ ("2" :> 2) @@ ("3" :> 3) @@ ("4" :> 4) @@
  ("5" :> 5) @@ ("6" :> 6) @@ ("7" :> 7) @@ ("8" :> 8) @@ ("9" :> 9)

\* the integer types of deserialize_integer_key!, by width; the model runs
\* the 8- and 16-bit instances of the macro
IntegerKeys ==
  {[method |-> "deserialize_i8", visit |-> "visit_i8", signed |-> TRUE, bits |-> 8],
   [method |-> "deserialize_u8", visit |-> "visit_u8", signed |-> FALSE, bits |-> 8],
   [method |-> "deserialize_i16", visit |-> "visit_i16", signed |-> TRUE, bits |-> 16],
   [method |-> "deserialize_u16", visit |-> "visit_u16", signed |-> FALSE, bits |-> 16]}
MIN(ty) == IF ty.signed THEN -(2 ^ (ty.bits - 1)) ELSE 0
MAX(ty) == IF ty.signed THEN 2 ^ (ty.bits - 1) - 1 ELSE 2 ^ ty.bits - 1

\* the digit loop of str::parse: checked_mul(10), then checked_add of the
\* digit (checked_sub when the text began with '-')
RECURSIVE parse_digits(_, _, _, _)
parse_digits(digits, result, is_positive, ty) ==
  IF digits = <<>>
    THEN Ok(Integer(result))
    ELSE IF Head(digits) \notin DOMAIN to_digit
      THEN Err("InvalidDigit")
      ELSE LET mul == result * 10
               x == to_digit[Head(digits)]
               next == IF is_positive THEN mul + x ELSE mul - x
           IN  IF mul > MAX(ty) \/ mul < MIN(ty)
                 THEN Err(IF is_positive THEN "PosOverflow" ELSE "NegOverflow")
                 ELSE IF next > MAX(ty) \/ next < MIN(ty)
                   THEN Err(IF is_positive THEN "PosOverflow" ELSE "NegOverflow")
                   ELSE parse_digits(Tail(digits), next, is_positive, ty)

\* self.key.parse() at the integer type the visitor method takes
parse(src, ty) ==
  IF src = <<>>
    THEN Err("Empty")
    ELSE IF Len(src) = 1 /\ Head(src) \in {"+", "-"}
      THEN Err("InvalidDigit")
      ELSE IF Head(src) = "+"
        THEN parse_digits(Tail(src), 0, TRUE, ty)
        ELSE IF Head(src) = "-" /\ ty.signed
          THEN parse_digits(Tail(src), 0, FALSE, ty)
          ELSE parse_digits(src, 0, TRUE, ty)

\* BorrowedCowStrDeserializer::deserialize_any
BorrowedCowStrDeserializer_deserialize_any(self) ==
  IF self.value.cow = "Borrowed"
    THEN Visit("visit_borrowed_str", String(self.value.s))
    ELSE Visit("visit_string", String(self.value.s))

\* let key_de = MapKeyDeserializer { key: Cow::Owned(key) } in the owned
\* cursor, Cow::Borrowed(&**key) in the borrowed one
key_de(m, key) == [key |-> IF m = "owned" THEN Cow_Owned(key) ELSE Cow_Borrowed(key)]

\* MapKeyDeserializer::deserialize_any
MapKeyDeserializer_deserialize_any(self) ==
  BorrowedCowStrDeserializer_deserialize_any([value |-> self.key])

\* seeded fault: a key that is no integer of the type is an error
deserialize_integer_key_strict(self, ty) ==
  LET parsed == parse(Chars(self.key.s), ty)
  IN  IF parsed.st = "ok"
        THEN Visit(ty.visit, parsed.v)
        ELSE Fail(invalid_type(Unexpected_Str(self.key.s), "an integer key"))

\* deserialize_integer_key!($method => $visit)
deserialize_integer_key(self, ty) ==
  LET parsed == parse(Chars(self.key.s), ty)
  IN  IF parsed.st = "ok"
        THEN Visit(ty.visit, parsed.v)
        ELSE IF self.key.cow = "Borrowed"
          THEN Visit("visit_borrowed_str", String(self.key.s))
          ELSE Visit("visit_string", String(self.key.s))

\* forward_to_deserialize_any! of MapKeyDeserializer
ForwardedKeyMethods ==
  {"deserialize_bool", "deserialize_f32", "deserialize_f64", "deserialize_char",
   "deserialize_str", "deserialize_string", "deserialize_bytes",
   "deserialize_byte_buf", "deserialize_unit", "deserialize_unit_struct",
   "deserialize_seq", "deserialize_tuple", "deserialize_tuple_struct",
   "deserialize_map", "deserialize_struct", "deserialize_identifier",
   "deserialize_ignored_any"}

----------------------------------------------------------------------------
(* EnumDeserializer / VariantDeserializer and their borrowed twins.        *)

\* seeded fault: the seed's error is dropped and the name taken as it is
variant_seed_lenient(self, seeded) ==
  Ok([id |-> String(self.variant), visitor |-> [value |-> self.value]])

\* variant_seed, given what seed.deserialize(variant.into_deserializer())
\* returned: .map(|v| (v, VariantDeserializer { value: self.value }))
variant_seed(self, seeded) ==
  IF seeded.st = "ok"
    THEN Ok([id |-> seeded.v, visitor |-> [value |-> self.value]])
    ELSE seeded

\* Deserialize::deserialize(value) at type (): the unit shape is requested
unit_variant(self) ==
  IF self.value.some
    THEN LET d == deserialize_unit(self.value.v)
         IN  IF d.k = "visit" THEN Ok(Unit) ELSE Err(d.e)
    ELSE Ok(Unit)

\* seeded fault: a Null payload is taken for a missing one
newtype_variant_seed_null_absent(self) ==
  IF self.value.some /\ self.value.v.tag # "Null"
    THEN [k |-> "seed", value |-> self.value.v]
    ELSE Fail(invalid_type(Unexpected("UnitVariant"), "newtype variant"))

\* Some(value): seed.deserialize(value) is the whole of the call
newtype_variant_seed(self) ==
  IF self.value.some
    THEN [k |-> "seed", value |-> self.value.v]
    ELSE Fail(invalid_type(Unexpected("UnitVariant"), "newtype variant"))

tuple_variant(self) ==
  CASE self.value.some /\ self.value.v.tag = "Array" ->
         IF Len(self.value.v.items) = 0
           THEN Visit("visit_unit", Null)
           ELSE VisitArray(self.value.v.items)
    [] self.value.some /\ self.value.v.tag # "Array" ->
         Fail(invalid_type(unexpected(self.value.v), "tuple variant"))
    [] OTHER -> Fail(invalid_type(Unexpected("UnitVariant"), "tuple variant"))

\* seeded fault: an Array payload is accepted, as deserialize_struct accepts it
struct_variant_like_struct(self) ==
  CASE self.value.some /\ self.value.v.tag = "Object" -> VisitObject(self.value.v.entries)
    [] self.value.some /\ self.value.v.tag = "Array" -> VisitArray(self.value.v.items)
    [] self.value.some -> Fail(invalid_type(unexpected(self.value.v), "struct variant"))
    [] OTHER -> Fail(invalid_type(Unexpected("UnitVariant"), "struct variant"))

struct_variant(self) ==
  CASE self.value.some /\ self.value.v.tag = "Object" -> VisitObject(self.value.v.entries)
    [] self.value.some /\ self.value.v.tag # "Object" ->
         Fail(invalid_type(unexpected(self.value.v), "struct variant"))
    [] OTHER -> Fail(invalid_type(Unexpected("UnitVariant"), "struct variant"))

variant_seed_ref(self, seeded) ==
  IF seeded.st = "ok"
    THEN Ok([id |-> seeded.v, visitor |-> [value |-> self.value]])
    ELSE seeded

\* seeded fault: the payload is dropped without being decoded
unit_variant_ref_drop(self) == Ok(Unit)

unit_variant_ref(self) ==
  IF self.value.some
    THEN LET d == deserialize_unit_ref(self.value.v)
         IN  IF d.k = "visit" THEN Ok(Unit) ELSE Err(d.e)
    ELSE Ok(Unit)

newtype_variant_seed_ref(self) ==
  IF self.value.some
    THEN [k |-> "seed", value |-> self.value.v]
    ELSE Fail(invalid_type(Unexpected("UnitVariant"), "newtype variant"))

\* seeded fault: the empty Array goes through a cursor like any other
tuple_variant_ref_no_unit(self) ==
  CASE self.value.some /\ self.value.v.tag = "Array" -> VisitArray(self.value.v.items)
    [] self.value.some /\ self.value.v.tag # "Array" ->
         Fail(invalid_type(unexpected(self.value.v), "tuple variant"))
    [] OTHER -> Fail(invalid_type(Unexpected("UnitVariant"), "tuple variant"))

tuple_variant_ref(self) ==
  CASE self.value.some /\ self.value.v.tag = "Array" ->
         IF Len(self.value.v.items) = 0
           THEN Visit("visit_unit", Null)
           ELSE VisitArray(self.value.v.items)
    [] self.value.some /\ self.value.v.tag # "Array" ->
         Fail(invalid_type(unexpected(self.value.v), "tuple variant"))
    [] OTHER -> Fail(invalid_type(Unexpected("UnitVariant"), "tuple variant"))

struct_variant_ref(self) ==
  CASE self.value.some /\ self.value.v.tag = "Object" -> VisitObject(self.value.v.entries)
    [] self.value.some /\ self.value.v.tag # "Object" ->
         Fail(invalid_type(unexpected(self.value.v), "struct variant"))
    [] OTHER -> Fail(invalid_type(Unexpected("UnitVariant"), "struct variant"))

----------------------------------------------------------------------------
(* The target: what the visitors and seeds of the environment answer.      *)

\* what a visitor returns from a scalar callback: a record of the call
Echo(cb, arg) == [cb |-> cb, arg |-> arg]

\* the results a visitor may return from visit_seq / visit_map
TargetResults == {"t1", "t2"}

\* the type names a target passes to deserialize_newtype_struct
TypeNames == {"Wrapper", RawToken}

\* the variant lists a target passes to deserialize_enum
DeclaredSets == {{"A"}, {"A", "B"}}

\* a derived variant-identifier seed: it knows the declared names, and
\* every name when the enum has a catch-all (`other`) variant
identifier_seed(name, variants, other) ==
  IF name \in variants \/ other THEN Ok(String(name)) ELSE Err(unknown_variant(name))

\* the error of a key seed that rejects the key text
key_rejected(key) == [ctor |-> "unknown_field", name |-> key]

NoCursor == [kind |-> "none"]
NoAccess == [kind |-> "none"]

\* .map(Some) of next_element_seed / next_key_seed
MapSome(r) == IF r.st = "ok" THEN Ok(Some(r.v)) ELSE r

----------------------------------------------------------------------------
(* size_hint of the four cursors.                                          *)

\* Iterator::size_hint of vec::IntoIter, slice::Iter and the Map iterators:
\* (lower, Some(upper)), both the number of items left
Iterator_size_hint(iter) == <<Len(iter), Some(Len(iter))>>

\* seeded fault: the trait's default size_hint, which knows nothing
SeqDeserializer_size_hint_default(self) == None

SeqDeserializer_size_hint(self) ==
  LET hint == Iterator_size_hint(self.iter)
  IN  IF hint[2].some /\ hint[1] = hint[2].v THEN Some(hint[2].v) ELSE None

SeqRefDeserializer_size_hint(self) ==
  LET hint == Iterator_size_hint(self.iter)
  IN  IF hint[2].some /\ hint[1] = hint[2].v THEN Some(hint[2].v) ELSE None

MapDeserializer_size_hint(self) ==
  LET hint == Iterator_size_hint(self.iter)
  IN  IF hint[2].some /\ hint[1] = hint[2].v THEN Some(hint[2].v) ELSE None

MapRefDeserializer_size_hint(self) ==
  LET hint == Iterator_size_hint(self.iter)
  IN  IF hint[2].some /\ hint[1] = hint[2].v THEN Some(hint[2].v) ELSE None

----------------------------------------------------------------------------
(* State after the caller has handed a tree to the engine.                 *)

Init ==
  /\ tree \in Values
  /\ mode \in Modes
  /\ features = DefaultFeatures
  /\ pc = "de"
  /\ handle = Some(tree)
  /\ cur = NoCursor
  /\ access = NoAccess
  /\ frames = <<>>
  /\ ret = NoRet
  /\ ev = [op |-> "init"]

\* a deserialize call returns `outcome`: to the caller, or to the target code
\* that was decoding an element or a value of the cursor on top of `frames`
Finish(outcome) ==
  /\ handle' = None
  /\ access' = NoAccess
  /\ IF frames = <<>>
       THEN /\ pc' = "done"
            /\ cur' = NoCursor
            /\ frames' = frames
            /\ ret' = outcome
       ELSE /\ pc' = Head(frames).kind
            /\ cur' = Head(frames)
            /\ frames' = Tail(frames)
            /\ ret' = IF Head(frames).kind = "seq" THEN MapSome(outcome) ELSE outcome

\* let len = array.len(); let mut deserializer = SeqDeserializer::new(array);
EnterSeq(array, origin) ==
  /\ pc' = "seq"
  /\ cur' = [kind |-> "seq",
             de |-> IF mode = "owned" THEN SeqDeserializer_new(array)
                                      ELSE SeqRefDeserializer_new(array),
             len |-> Len(array), src |-> array, asked |-> 0, origin |-> origin]
  /\ handle' = None
  /\ access' = NoAccess
  /\ ret' = NoRet
  /\ UNCHANGED frames

\* let len = object.len(); let mut deserializer = MapDeserializer::new(object);
EnterMap(object, origin) ==
  /\ pc' = "map"
  /\ cur' = [kind |-> "map",
             de |-> IF mode = "owned" THEN MapDeserializer_new(object)
                                      ELSE MapRefDeserializer_new(object),
             len |-> Len(object), src |-> object, asked |-> 0,
             armed |-> FALSE, keyidx |-> 0, origin |-> origin]
  /\ handle' = None
  /\ access' = NoAccess
  /\ ret' = NoRet
  /\ UNCHANGED frames

\* the target is handed the deserializer of `v` and decodes it next
Hand(v) ==
  /\ pc' = "de"
  /\ handle' = Some(v)
  /\ access' = NoAccess
  /\ ret' = NoRet
  /\ UNCHANGED <<cur, frames>>

\* todo!() panics: the call unwinds and returns nothing
Panic ==
  /\ pc' = "panic"
  /\ handle' = None
  /\ access' = NoAccess
  /\ cur' = NoCursor
  /\ frames' = <<>>
  /\ ret' = NoRet

\* carry out what the method `op` decided
Dispatch(step, op) ==
  CASE step.k = "fail" -> Finish(Err(step.e))
    [] step.k = "visit" -> Finish(Ok(Echo(step.cb, step.arg)))
    [] step.k = "visit_array" -> EnterSeq(step.array, op)
    [] step.k = "visit_object" -> EnterMap(step.object, op)
    [] step.k = "visit_some" -> Hand(step.self)
    [] step.k = "visit_newtype_struct" -> Hand(step.self)
    [] step.k = "seed" -> Hand(step.value)
    [] step.k = "todo" -> Panic

Holding == pc = "de" /\ handle.some

----------------------------------------------------------------------------
(* The deserialize_* methods the target calls on the deserializer it holds. *)

DeserializeAny ==
  /\ Holding
  /\ LET step == IF mode = "owned" THEN deserialize_any(handle.v)
                                   ELSE deserialize_any_ref(handle.v)
     IN  /\ ev' = [op |-> "deserialize_any", self |-> handle.v, step |-> step]
         /\ Dispatch(step, "deserialize_any")
  /\ UNCHANGED <<tree, mode, features>>

DeserializeBool ==
  /\ Holding
  /\ LET step == IF mode = "owned" THEN deserialize_bool(handle.v)
                                   ELSE deserialize_bool_ref(handle.v)
     IN  /\ ev' = [op |-> "deserialize_bool", self |-> handle.v, step |-> step]
         /\ Dispatch(step, "deserialize_bool")
  /\ UNCHANGED <<tree, mode, features>>

DeserializeString ==
  /\ Holding
  /\ LET step == IF mode = "owned" THEN deserialize_string(handle.v)
                                   ELSE deserialize_string_ref(handle.v)
     IN  /\ ev' = [op |-> "deserialize_string", self |-> handle.v, step |-> step]
         /\ Dispatch(step, "deserialize_string")
  /\ UNCHANGED <<tree, mode, features>>

DeserializeUnit ==
  /\ Holding
  /\ LET step == IF mode = "owned" THEN deserialize_unit(handle.v)
                                   ELSE deserialize_unit_ref(handle.v)
     IN  /\ ev' = [op |-> "deserialize_unit", self |-> handle.v, step |-> step]
         /\ Dispatch(step, "deserialize_unit")
  /\ UNCHANGED <<tree, mode, features>>

DeserializeSeq ==
  /\ Holding
  /\ LET step == IF mode = "owned" THEN deserialize_seq(handle.v)
                                   ELSE deserialize_seq_ref(handle.v)
     IN  /\ ev' = [op |-> "deserialize_seq", self |-> handle.v, step |-> step]
         /\ Dispatch(step, "deserialize_seq")
  /\ UNCHANGED <<tree, mode, features>>

DeserializeMap ==
  /\ Holding
  /\ LET step == IF mode = "owned" THEN deserialize_map(handle.v)
                                   ELSE deserialize_map_ref(handle.v)
     IN  /\ ev' = [op |-> "deserialize_map", self |-> handle.v, step |-> step]
         /\ Dispatch(step, "deserialize_map")
  /\ UNCHANGED <<tree, mode, features>>

DeserializeStruct ==
  /\ Holding
  /\ LET step == IF mode = "owned" THEN deserialize_struct(handle.v)
                                   ELSE deserialize_struct_ref(handle.v)
     IN  /\ ev' = [op |-> "deserialize_struct", self |-> handle.v, step |-> step]
         /\ Dispatch(step, "deserialize_struct")
  /\ UNCHANGED <<tree, mode, features>>

DeserializeOption ==
  /\ Holding
  /\ LET step == IF mode = "owned" THEN deserialize_option(handle.v)
                                   ELSE deserialize_option_ref(handle.v)
     IN  /\ ev' = [op |-> "deserialize_option", self |-> handle.v, step |-> step]
         /\ Dispatch(step, "deserialize_option")
  /\ UNCHANGED <<tree, mode, features>>

\* `variants` is the list the target declares; `other` tells whether its
\* identifier seed has a catch-all
DeserializeEnum(variants, other) ==
  /\ Holding
  /\ LET step == IF mode = "owned" THEN deserialize_enum(handle.v)
                                   ELSE deserialize_enum_ref(handle.v)
     IN  /\ ev' = [op |-> "deserialize_enum", self |-> handle.v, step |-> step,
                   variants |-> variants, other |-> other]
         /\ IF step.k = "visit_enum"
              THEN /\ pc' = "enum"
                   /\ access' = [kind |-> "enum", variant |-> step.variant,
                                 value |-> step.value,
                                 variants |-> variants, other |-> other]
                   /\ handle' = None
                   /\ ret' = NoRet
                   /\ UNCHANGED <<cur, frames>>
              ELSE Dispatch(step, "deserialize_enum")
  /\ UNCHANGED <<tree, mode, features>>


\* deserialize_i8 .. deserialize_u128, deserialize_f32, deserialize_f64
DeserializeNumber(method) ==
  /\ Holding
  /\ LET step == IF mode = "owned"
                   THEN deserialize_number(handle.v, method, features.arbitrary_precision)
                   ELSE deserialize_value_ref_number(handle.v, method,
                                                     features.arbitrary_precision)
     IN  /\ ev' = [op |-> "deserialize_number", self |-> handle.v, step |-> step]
         /\ Dispatch(step, "deserialize_number")
  /\ UNCHANGED <<tree, mode, features>>

\* `name` is the type name the target passes
DeserializeNewtypeStruct(name) ==
  /\ Holding
  /\ LET step == IF mode = "owned"
                   THEN deserialize_newtype_struct(handle.v, name, features.raw_value)
                   ELSE deserialize_newtype_struct_ref(handle.v, name, features.raw_value)
     IN  /\ ev' = [op |-> "deserialize_newtype_struct", name |-> name,
                   self |-> handle.v, step |-> step]
         /\ Dispatch(step, "deserialize_newtype_struct")
  /\ UNCHANGED <<tree, mode, features>>

DeserializeChar ==
  /\ Holding
  /\ LET step == IF mode = "owned" THEN deserialize_char(handle.v)
                                   ELSE deserialize_char_ref(handle.v)
     IN  /\ ev' = [op |-> "deserialize_char", self |-> handle.v, step |-> step]
         /\ Dispatch(step, "deserialize_char")
  /\ UNCHANGED <<tree, mode, features>>

DeserializeStr ==
  /\ Holding
  /\ LET step == IF mode = "owned" THEN deserialize_str(handle.v)
                                   ELSE deserialize_str_ref(handle.v)
     IN  /\ ev' = [op |-> "deserialize_str", self |-> handle.v, step |-> step]
         /\ Dispatch(step, "deserialize_str")
  /\ UNCHANGED <<tree, mode, features>>

DeserializeIdentifier ==
  /\ Holding
  /\ LET step == IF mode = "owned" THEN deserialize_identifier(handle.v)
                                   ELSE deserialize_identifier_ref(handle.v)
     IN  /\ ev' = [op |-> "deserialize_identifier", self |-> handle.v, step |-> step]
         /\ Dispatch(step, "deserialize_identifier")
  /\ UNCHANGED <<tree, mode, features>>

DeserializeBytes ==
  /\ Holding
  /\ LET step == IF mode = "owned" THEN deserialize_bytes(handle.v)
                                   ELSE deserialize_bytes_ref(handle.v)
     IN  /\ ev' = [op |-> "deserialize_bytes", self |-> handle.v, step |-> step]
         /\ Dispatch(step, "deserialize_bytes")
  /\ UNCHANGED <<tree, mode, features>>

DeserializeByteBuf ==
  /\ Holding
  /\ LET step == IF mode = "owned" THEN deserialize_byte_buf(handle.v)
                                   ELSE deserialize_byte_buf_ref(handle.v)
     IN  /\ ev' = [op |-> "deserialize_byte_buf", self |-> handle.v, step |-> step]
         /\ Dispatch(step, "deserialize_byte_buf")
  /\ UNCHANGED <<tree, mode, features>>

DeserializeUnitStruct ==
  /\ Holding
  /\ LET step == IF mode = "owned" THEN deserialize_unit_struct(handle.v)
                                   ELSE deserialize_unit_struct_ref(handle.v)
     IN  /\ ev' = [op |-> "deserialize_unit_struct", self |-> handle.v, step |-> step]
         /\ Dispatch(step, "deserialize_unit_struct")
  /\ UNCHANGED <<tree, mode, features>>

DeserializeTuple ==
  /\ Holding
  /\ LET step == IF mode = "owned" THEN deserialize_tuple(handle.v)
                                   ELSE deserialize_tuple_ref(handle.v)
     IN  /\ ev' = [op |-> "deserialize_tuple", self |-> handle.v, step |-> step]
         /\ Dispatch(step, "deserialize_tuple")
  /\ UNCHANGED <<tree, mode, features>>

DeserializeTupleStruct ==
  /\ Holding
  /\ LET step == IF mode = "owned" THEN deserialize_tuple_struct(handle.v)
                                   ELSE deserialize_tuple_struct_ref(handle.v)
     IN  /\ ev' = [op |-> "deserialize_tuple_struct", self |-> handle.v, step |-> step]
         /\ Dispatch(step, "deserialize_tuple_struct")
  /\ UNCHANGED <<tree, mode, features>>

DeserializeIgnoredAny ==
  /\ Holding
  /\ LET step == IF mode = "owned" THEN deserialize_ignored_any(handle.v)
                                   ELSE deserialize_ignored_any_ref(handle.v)
     IN  /\ ev' = [op |-> "deserialize_ignored_any", self |-> handle.v, step |-> step]
         /\ Dispatch(step, "deserialize_ignored_any")
  /\ UNCHANGED <<tree, mode, features>>

----------------------------------------------------------------------------
(* The target drives a sequence cursor (inside visitor.visit_seq).         *)

\* seq.next_element_seed(seed); the seed decodes the element next
NextElement ==
  /\ pc = "seq"
  /\ cur.asked < cur.len + MaxExtra
  /\ LET r == IF mode = "owned" THEN next_element_seed(cur.de)
                                ELSE next_element_seed_ref(cur.de)
         c == [cur EXCEPT !.de = r.self, !.asked = @ + 1]
     IN  /\ ev' = [op |-> "next_element_seed", value |-> r.value, before |-> cur]
         /\ IF r.value.some
              THEN /\ pc' = "de"
                   /\ handle' = r.value
                   /\ frames' = <<c>> \o frames
                   /\ cur' = NoCursor
                   /\ ret' = NoRet
              ELSE /\ pc' = "seq"
                   /\ cur' = c
                   /\ ret' = Ok(None)
                   /\ UNCHANGED <<handle, frames>>
  /\ UNCHANGED <<tree, mode, features, access>>

\* visitor.visit_seq returns Ok(t): the engine checks the cursor is drained
SeqReturn(t) ==
  /\ pc = "seq"
  /\ LET seq == [cb |-> "visit_seq", r |-> t]
         out == IF mode = "owned" THEN visit_array(cur.len, cur.de, seq)
                                  ELSE visit_array_ref(cur.len, cur.de, seq)
     IN  /\ ev' = [op |-> "visit_array", src |-> cur.src, asked |-> cur.asked,
                   seq |-> seq, out |-> out, before |-> cur]
         /\ Finish(out)
  /\ UNCHANGED <<tree, mode, features>>

\* the errors a visitor may return: the one it was just handed, or its own
VisitorErrors == (IF ret.st = "err" THEN {ret.e} ELSE {}) \cup {custom("target")}

\* seeded fault: the remaining-elements check runs on the error path too
SeqFail_checked(e) ==
  /\ pc = "seq"
  /\ LET r == visit_array(cur.len, cur.de, [cb |-> "visit_seq", r |-> e])
     IN  /\ ev' = [op |-> "visit_array tri!", src |-> cur.src, before |-> cur, e |-> e]
         /\ Finish(IF r.st = "ok" THEN Err(e) ELSE r)
  /\ UNCHANGED <<tree, mode, features>>

\* visitor.visit_seq returns Err(e): tri! returns it at once
SeqFail(e) ==
  /\ pc = "seq"
  /\ ev' = [op |-> "visit_array tri!", src |-> cur.src, before |-> cur, e |-> e]
  /\ Finish(Err(e))
  /\ UNCHANGED <<tree, mode, features>>

----------------------------------------------------------------------------
(* The target drives a map cursor (inside visitor.visit_map).              *)

\* map.next_key_seed(seed); `accept`: whether the key seed takes the key
NextKey(accept) ==
  /\ pc = "map"
  /\ cur.asked < cur.len + MaxExtra
  /\ LET r == IF mode = "owned" THEN next_key_seed(cur.de)
                                ELSE next_key_seed_ref(cur.de)
         idx == cur.len - Len(cur.de.iter) + 1
     IN  /\ r.key.some \/ accept
         /\ ev' = [op |-> "next_key_seed", key |-> r.key, accept |-> accept,
                   before |-> cur]
         /\ cur' = [cur EXCEPT !.de = r.self, !.asked = @ + 1,
                               !.armed = IF r.key.some /\ accept THEN TRUE ELSE @,
                               !.keyidx = IF r.key.some /\ accept THEN idx ELSE @]
         /\ ret' = IF r.key.some
                     THEN IF accept
                            THEN MapSome(Ok(Echo("key", String(r.key.v))))
                            ELSE MapSome(Err(key_rejected(r.key.v)))
                     ELSE Ok(None)
  /\ UNCHANGED <<tree, mode, features, pc, handle, access, frames>>

\* map.next_value_seed(seed); the seed decodes the buffered value next
NextValue ==
  /\ pc = "map"
  /\ LET r == IF mode = "owned" THEN next_value_seed(cur.de)
                                ELSE next_value_seed_ref(cur.de)
         c == [cur EXCEPT !.de = r.self, !.armed = FALSE]
     IN  /\ ev' = [op |-> "next_value_seed", value |-> r.value, before |-> cur]
         /\ IF r.value.some
              THEN /\ pc' = "de"
                   /\ handle' = r.value
                   /\ frames' = <<c>> \o frames
                   /\ cur' = NoCursor
                   /\ ret' = NoRet
              ELSE /\ pc' = "map"
                   /\ cur' = c
                   /\ ret' = Err(custom("value is missing"))
                   /\ UNCHANGED <<handle, frames>>
  /\ UNCHANGED <<tree, mode, features, access>>

\* visitor.visit_map returns Ok(t): the engine checks the cursor is drained
MapReturn(t) ==
  /\ pc = "map"
  /\ LET map == [cb |-> "visit_map", r |-> t]
         out == IF mode = "owned" THEN visit_object(cur.len, cur.de, map)
                                  ELSE visit_object_ref(cur.len, cur.de, map)
     IN  /\ ev' = [op |-> "visit_object", src |-> cur.src, asked |-> cur.asked,
                   map |-> map, out |-> out, before |-> cur]
         /\ Finish(out)
  /\ UNCHANGED <<tree, mode, features>>

\* visitor.visit_map returns Err(e): tri! returns it at once
MapFail(e) ==
  /\ pc = "map"
  /\ ev' = [op |-> "visit_object tri!", src |-> cur.src, before |-> cur, e |-> e]
  /\ Finish(Err(e))
  /\ UNCHANGED <<tree, mode, features>>

\* seq.size_hint() / map.size_hint(): the target asks how much is left
SizeHint ==
  /\ pc \in {"seq", "map"}
  /\ ev' = [op |-> "size_hint", before |-> cur,
            hint |-> CASE pc = "seq" /\ mode = "owned" -> SeqDeserializer_size_hint(cur.de)
                       [] pc = "seq" /\ mode = "borrowed" -> SeqRefDeserializer_size_hint(cur.de)
                       [] pc = "map" /\ mode = "owned" -> MapDeserializer_size_hint(cur.de)
                       [] pc = "map" /\ mode = "borrowed" -> MapRefDeserializer_size_hint(cur.de)]
  /\ UNCHANGED <<tree, mode, features, pc, handle, cur, access, frames, ret>>

----------------------------------------------------------------------------
(* The target decodes a tagged union (inside visitor.visit_enum).          *)

\* data.variant_seed(seed): the name goes to the target's identifier seed
VariantSeed ==
  /\ pc = "enum"
  /\ LET self == [variant |-> access.variant, value |-> access.value]
         seeded == identifier_seed(access.variant, access.variants, access.other)
         r == IF mode = "owned" THEN variant_seed(self, seeded)
                                ELSE variant_seed_ref(self, seeded)
     IN  /\ ev' = [op |-> "variant_seed", variant |-> access.variant,
                   value |-> access.value, variants |-> access.variants,
                   other |-> access.other, seeded |-> seeded]
         /\ IF r.st = "ok"
              THEN /\ pc' = "variant"
                   /\ access' = [kind |-> "variant", value |-> r.v.visitor.value]
                   /\ ret' = Ok(r.v.id)
                   /\ UNCHANGED <<handle, cur, frames>>
              ELSE Finish(r)
  /\ UNCHANGED <<tree, mode, features>>

UnitVariant ==
  /\ pc = "variant"
  /\ LET self == [value |-> access.value]
         out == IF mode = "owned" THEN unit_variant(self) ELSE unit_variant_ref(self)
     IN  /\ ev' = [op |-> "unit_variant", value |-> access.value, out |-> out]
         /\ Finish(out)
  /\ UNCHANGED <<tree, mode, features>>

NewtypeVariantSeed ==
  /\ pc = "variant"
  /\ LET self == [value |-> access.value]
         step == IF mode = "owned" THEN newtype_variant_seed(self)
                                   ELSE newtype_variant_seed_ref(self)
     IN  /\ ev' = [op |-> "newtype_variant_seed", value |-> access.value, step |-> step,
                   depth |-> Len(frames)]
         /\ Dispatch(step, "newtype_variant_seed")
  /\ UNCHANGED <<tree, mode, features>>

TupleVariant ==
  /\ pc = "variant"
  /\ LET self == [value |-> access.value]
         step == IF mode = "owned" THEN tuple_variant(self) ELSE tuple_variant_ref(self)
     IN  /\ ev' = [op |-> "tuple_variant", value |-> access.value, step |-> step]
         /\ Dispatch(step, "tuple_variant")
  /\ UNCHANGED <<tree, mode, features>>

StructVariant ==
  /\ pc = "variant"
  /\ LET self == [value |-> access.value]
         step == IF mode = "owned" THEN struct_variant(self) ELSE struct_variant_ref(self)
     IN  /\ ev' = [op |-> "struct_variant", value |-> access.value, step |-> step]
         /\ Dispatch(step, "struct_variant")
  /\ UNCHANGED <<tree, mode, features>>

----------------------------------------------------------------------------

Next ==
  \/ DeserializeAny
  \/ DeserializeBool
  \/ DeserializeString
  \/ DeserializeUnit
  \/ DeserializeSeq
  \/ DeserializeMap
  \/ DeserializeStruct
  \/ DeserializeOption
  \/ \E variants \in DeclaredSets, other \in BOOLEAN : DeserializeEnum(variants, other)
  \/ \E method \in NumberMethods : DeserializeNumber(method)
  \/ \E name \in TypeNames : DeserializeNewtypeStruct(name)
  \/ DeserializeChar
  \/ DeserializeStr
  \/ DeserializeIdentifier
  \/ DeserializeBytes
  \/ DeserializeByteBuf
  \/ DeserializeUnitStruct
  \/ DeserializeTuple
  \/ DeserializeTupleStruct
  \/ DeserializeIgnoredAny
  \/ NextElement
  \/ \E t \in TargetResults : SeqReturn(t)
  \/ \E e \in VisitorErrors : SeqFail(e)
  \/ \E accept \in BOOLEAN : NextKey(accept)
  \/ NextValue
  \/ \E t \in TargetResults : MapReturn(t)
  \/ \E e \in VisitorErrors : MapFail(e)
  \/ SizeHint
  \/ VariantSeed
  \/ UnitVariant
  \/ NewtypeVariantSeed
  \/ TupleVariant
  \/ StructVariant

Spec == Init /\ [][Next]_vars

----------------------------------------------------------------------------
(* The same decode call in every build of the crate.                       *)

\* the trees decoded under each feature set
BuildTrees ==
  Scalars \cup {Array(<<Number(0)>>), Object(<<<<"A", Null>>>>),
                Object(<<<<"A", String("B")>>, <<"B", DateTime>>>>)}

InitBuilds ==
  /\ tree \in BuildTrees
  /\ mode \in Modes
  /\ features \in FeatureSets
  /\ pc = "de"
  /\ handle = Some(tree)
  /\ cur = NoCursor
  /\ access = NoAccess
  /\ frames = <<>>
  /\ ret = NoRet
  /\ ev = [op |-> "init"]

SpecBuilds == InitBuilds /\ [][Next]_vars

----------------------------------------------------------------------------
(* The key decoder on its own: a key seed holds the MapKeyDeserializer     *)
(* that next_key_seed built for the only key of `tree` (pc = "key").       *)

InitKey ==
  /\ tree \in {Object(<<<<key, Null>>>>) : key \in KeyTexts}
  /\ mode \in Modes
  /\ features = DefaultFeatures
  /\ pc = "key"
  /\ handle = Some(key_de(mode, tree.entries[1][1]))
  /\ cur = NoCursor
  /\ access = NoAccess
  /\ frames = <<>>
  /\ ret = NoRet
  /\ ev = [op |-> "init"]

HoldingKey == pc = "key" /\ handle.some

\* the key seed's visitor was called with a scalar and returns
KeyVisited(step) ==
  /\ pc' = "done"
  /\ handle' = None
  /\ ret' = IF step.k = "fail" THEN Err(step.e) ELSE Ok(Echo(step.cb, step.arg))
  /\ UNCHANGED <<tree, mode, features, cur, access, frames>>

KeyDeserializeAny ==
  /\ HoldingKey
  /\ LET step == MapKeyDeserializer_deserialize_any(handle.v)
     IN  /\ ev' = [op |-> "MapKeyDeserializer::deserialize_any",
                   self |-> handle.v, step |-> step]
         /\ KeyVisited(step)

KeyDeserializeInteger(ty) ==
  /\ HoldingKey
  /\ LET step == deserialize_integer_key(handle.v, ty)
     IN  /\ ev' = [op |-> "deserialize_integer_key", self |-> handle.v, ty |-> ty,
                   step |-> step]
         /\ KeyVisited(step)

KeyForwarded(method) ==
  /\ HoldingKey
  /\ LET step == MapKeyDeserializer_deserialize_any(handle.v)
     IN  /\ ev' = [op |-> "forward_to_deserialize_any", method |-> method,
                   self |-> handle.v, step |-> step]
         /\ KeyVisited(step)

\* visitor.visit_some(self): the seed goes on with the same key decoder
KeyDeserializeOption ==
  /\ HoldingKey
  /\ ev' = [op |-> "MapKeyDeserializer::deserialize_option", self |-> handle.v,
            step |-> VisitSome(handle.v)]
  /\ UNCHANGED <<tree, mode, features, pc, handle, cur, access, frames, ret>>

\* visitor.visit_newtype_struct(self): likewise
KeyDeserializeNewtypeStruct ==
  /\ HoldingKey
  /\ ev' = [op |-> "MapKeyDeserializer::deserialize_newtype_struct",
            self |-> handle.v, step |-> [k |-> "seed", value |-> handle.v]]
  /\ UNCHANGED <<tree, mode, features, pc, handle, cur, access, frames, ret>>

NextKeyDecoder ==
  \/ KeyDeserializeAny
  \/ \E ty \in IntegerKeys : KeyDeserializeInteger(ty)
  \/ \E method \in ForwardedKeyMethods : KeyForwarded(method)
  \/ KeyDeserializeOption
  \/ KeyDeserializeNewtypeStruct

SpecKey == InitKey /\ [][NextKeyDecoder]_vars

----------------------------------------------------------------------------
(* Targets that run to the end: `impl Deserialize for DType` of this file  *)
(* and the std targets of serde, each driving the engine as its visitor    *)
(* does.  deserialize(m, cfg, T, v) is T::deserialize(v) on the owned      *)
(* (m = "owned") or the borrowed impl, in the build cfg.                   *)

\* the call unwound in todo!()
Abort == [st |-> "panic"]

\* the target types: leaves, and one container level around a leaf
DTypeT == [t |-> "DType"]
Leaves == {[t |-> "bool"], [t |-> "String"], [t |-> "&str"], [t |-> "()"],
           [t |-> "u64"], DTypeT}
Inner == {[t |-> "String"], [t |-> "&str"], [t |-> "()"], DTypeT}
Shapes ==
  Leaves \cup {[t |-> c, of |-> l] : c \in {"Option", "Vec", "Tuple1", "Map"}, l \in Inner}

\* the method T::deserialize calls on the deserializer it is given
Request(m, cfg, T, v) ==
  CASE T.t = "bool" -> IF m = "owned" THEN deserialize_bool(v) ELSE deserialize_bool_ref(v)
    [] T.t = "String" ->
         IF m = "owned" THEN deserialize_string(v) ELSE deserialize_string_ref(v)
    [] T.t = "&str" -> IF m = "owned" THEN deserialize_str(v) ELSE deserialize_str_ref(v)
    [] T.t = "()" -> IF m = "owned" THEN deserialize_unit(v) ELSE deserialize_unit_ref(v)
    [] T.t = "u64" ->
         IF m = "owned"
           THEN deserialize_number(v, "deserialize_u64", cfg.arbitrary_precision)
           ELSE deserialize_value_ref_number(v, "deserialize_u64", cfg.arbitrary_precision)
    [] T.t = "Option" ->
         IF m = "owned" THEN deserialize_option(v) ELSE deserialize_option_ref(v)
    [] T.t = "Vec" -> IF m = "owned" THEN deserialize_seq(v) ELSE deserialize_seq_ref(v)
    [] T.t = "Tuple1" -> IF m = "owned" THEN deserialize_tuple(v) ELSE deserialize_tuple_ref(v)
    [] T.t = "Map" -> IF m = "owned" THEN deserialize_map(v) ELSE deserialize_map_ref(v)
    [] T.t = "DType" -> IF m = "owned" THEN deserialize_any(v) ELSE deserialize_any_ref(v)

\* what a visitor that does not implement a callback reports as found
UnexpectedOf(cb, arg) ==
  CASE cb = "visit_bool" -> Unexpected_Bool(arg.b)
    [] cb \in {"visit_string", "visit_borrowed_str"} -> Unexpected_Str(arg.s)
    [] cb \in {"Number::deserialize_any", "Number::$method"} -> Number_unexpected(arg.n)
    [] cb = "visit_none" -> Unexpected("Option")
    [] OTHER -> Unexpected("Unit")

\* seeded fault: borrowed text is not forwarded to visit_string
DTypeVisitor_visit_no_borrowed(cb, arg) ==
  CASE cb = "visit_bool" -> Ok(Boolean(arg.b))
    [] cb \in {"Number::deserialize_any", "Number::$method"} -> Ok(Number(arg.n))
    [] cb = "visit_string" -> Ok(String(arg.s))
    [] cb \in {"visit_none", "visit_unit", "visit_borrowed_str"} -> Ok(Null)

\* DTypeVisitor::visit_bool .. visit_unit; a Number reaches visit_i64 /
\* visit_u64 / visit_f64 through the Number collaborator and is kept as it is
DTypeVisitor_visit(cb, arg) ==
  CASE cb = "visit_bool" -> Ok(Boolean(arg.b))
    [] cb \in {"Number::deserialize_any", "Number::$method"} -> Ok(Number(arg.n))
    [] cb \in {"visit_string", "visit_borrowed_str"} -> Ok(String(arg.s))
    [] cb \in {"visit_none", "visit_unit"} -> Ok(Null)

\* the scalar callbacks of each target's visitor; a callback the visitor does
\* not implement is serde's default: Err(invalid_type(..))
visit_scalar(T, cb, arg) ==
  CASE T.t = "DType" -> DTypeVisitor_visit(cb, arg)
    [] T.t = "bool" /\ cb = "visit_bool" -> Ok(arg)
    [] T.t = "String" /\ cb \in {"visit_string", "visit_borrowed_str"} -> Ok(arg)
    [] T.t = "&str" /\ cb = "visit_borrowed_str" -> Ok(arg)
    [] T.t = "()" /\ cb = "visit_unit" -> Ok(Unit)
    [] T.t = "u64" /\ cb \in {"Number::deserialize_any", "Number::$method"} ->
         Ok(Integer(arg.n))
    [] T.t = "Option" /\ cb \in {"visit_none", "visit_unit"} -> Ok(None)
    [] OTHER -> Err(invalid_type(UnexpectedOf(cb, arg), T.t))

\* seeded fault: the tokens are looked for in every build
KeyClassifier_visit_str_any_build(cfg, s) ==
  CASE s = NumberToken -> [class |-> "Number"]
    [] s = RawToken -> [class |-> "RawDType"]
    [] OTHER -> [class |-> "Map", key |-> s]

\* KeyClassifier::visit_str / visit_string
KeyClassifier_visit_str(cfg, s) ==
  CASE cfg.arbitrary_precision /\ s = NumberToken -> [class |-> "Number"]
    [] cfg.raw_value /\ s = RawToken -> [class |-> "RawDType"]
    [] OTHER -> [class |-> "Map", key |-> s]

\* KeyClassifier::deserialize: deserializer.deserialize_str(self), which the
\* key decoder forwards to deserialize_any
KeyClassifier_deserialize(cfg, deserializer) ==
  KeyClassifier_visit_str(cfg, MapKeyDeserializer_deserialize_any(deserializer).arg.s)

\* String::deserialize on the key decoder: the key of a next_entry
String_deserialize_key(deserializer) ==
  MapKeyDeserializer_deserialize_any(deserializer).arg.s

\* the numerals NumberFromString reads, and the Number each denotes
NumberTexts == ("0" :> 0) @@ ("7" :> 7)

\* NumberFromString::deserialize: the text of a number capsule
NumberFromString(m, v) ==
  LET step == IF m = "owned" THEN deserialize_str(v) ELSE deserialize_str_ref(v)
  IN  IF step.k = "fail"
        THEN Err(step.e)
        ELSE IF step.arg.s \in DOMAIN NumberTexts
          THEN Ok(Number(NumberTexts[step.arg.s]))
          ELSE Err(custom("invalid number"))

\* next_value_seed(BoxedFromString), then crate::from_str(value.get()): the
\* document the text of a raw capsule parses to
BoxedFromString(m, v) ==
  LET step == IF m = "owned" THEN deserialize_str(v) ELSE deserialize_str_ref(v)
  IN  IF step.k = "fail"
        THEN Err(step.e)
        ELSE Ok([tag |-> "crate::from_str", text |-> step.arg.s])

\* Map::insert: a new key goes last, a known key keeps its place
Map_insert(values, key, value) ==
  IF \E i \in 1..Len(values) : values[i][1] = key
    THEN [i \in 1..Len(values) |->
            IF values[i][1] = key THEN <<key, value>> ELSE values[i]]
    ELSE Append(values, <<key, value>>)

RECURSIVE deserialize(_, _, _, _)

\* visitor.next_value() / the value half of visitor.next_entry()
next_value(m, cfg, T, de) ==
  LET r == IF m = "owned" THEN next_value_seed(de) ELSE next_value_seed_ref(de)
  IN  [de |-> r.self,
       out |-> IF r.value.some THEN deserialize(m, cfg, T, r.value.v)
                               ELSE Err(custom("value is missing"))]

\* while let Some(elem) = tri!(visitor.next_element()) { vec.push(elem); }
RECURSIVE next_elements(_, _, _, _, _)
next_elements(m, cfg, T, de, vec) ==
  LET r == IF m = "owned" THEN next_element_seed(de) ELSE next_element_seed_ref(de)
  IN  IF ~r.value.some
        THEN [de |-> r.self, out |-> Ok(vec)]
        ELSE LET elem == deserialize(m, cfg, T, r.value.v)
             IN  IF elem.st = "ok"
                   THEN next_elements(m, cfg, T, r.self, Append(vec, elem.v))
                   ELSE [de |-> r.self, out |-> elem]

\* while let Some((key, value)) = tri!(visitor.next_entry()) { values.insert(key, value); }
RECURSIVE next_entries(_, _, _, _, _)
next_entries(m, cfg, T, de, values) ==
  LET k == IF m = "owned" THEN next_key_seed(de) ELSE next_key_seed_ref(de)
  IN  IF ~k.key.some
        THEN [de |-> k.self, out |-> Ok(values)]
        ELSE LET key == String_deserialize_key(key_de(m, k.key.v))
                 value == next_value(m, cfg, T, k.self)
             IN  IF value.out.st = "ok"
                   THEN next_entries(m, cfg, T, value.de,
                                     Map_insert(values, key, value.out.v))
                   ELSE value

\* Ok(DType::Array(vec)) / Ok(DType::Object(values)) around a finished loop
Collected(r, tag) ==
  IF r.out.st = "ok"
    THEN [de |-> r.de,
          out |-> Ok(IF tag = "Array" THEN Array(r.out.v) ELSE Object(r.out.v))]
    ELSE r

\* DTypeVisitor::visit_seq
DTypeVisitor_visit_seq(m, cfg, visitor) ==
  Collected(next_elements(m, cfg, DTypeT, visitor, <<>>), "Array")

\* seeded fault: the classified first key is dropped and the loop starts at
\* the second entry
DTypeVisitor_visit_map_skip_first(m, cfg, visitor) ==
  LET k == IF m = "owned" THEN next_key_seed(visitor) ELSE next_key_seed_ref(visitor)
  IN  IF ~k.key.some
        THEN [de |-> k.self, out |-> Ok(Object(<<>>))]
        ELSE Collected(next_entries(m, cfg, DTypeT, k.self, <<>>), "Object")

\* DTypeVisitor::visit_map
DTypeVisitor_visit_map(m, cfg, visitor) ==
  LET k == IF m = "owned" THEN next_key_seed(visitor) ELSE next_key_seed_ref(visitor)
      class == KeyClassifier_deserialize(cfg, key_de(m, k.key.v))
      taken == IF m = "owned" THEN next_value_seed(k.self) ELSE next_value_seed_ref(k.self)
      missing == Err(custom("value is missing"))
  IN  IF ~k.key.some
        THEN [de |-> k.self, out |-> Ok(Object(<<>>))]
        ELSE CASE class.class = "Number" ->
                    [de |-> taken.self,
                     out |-> IF taken.value.some THEN NumberFromString(m, taken.value.v)
                                                 ELSE missing]
               [] class.class = "RawDType" ->
                    [de |-> taken.self,
                     out |-> IF taken.value.some THEN BoxedFromString(m, taken.value.v)
                                                 ELSE missing]
               [] class.class = "Map" ->
                    LET first == next_value(m, cfg, DTypeT, k.self)
                    IN  IF first.out.st = "ok"
                          THEN Collected(
                                 next_entries(m, cfg, DTypeT, first.de,
                                              Map_insert(<<>>, class.key, first.out.v)),
                                 "Object")
                          ELSE first

\* visit_seq of each target's visitor, on the cursor `visitor`
visit_seq(m, cfg, T, visitor) ==
  CASE T.t = "DType" -> DTypeVisitor_visit_seq(m, cfg, visitor)
    [] T.t = "Vec" -> Collected(next_elements(m, cfg, T.of, visitor, <<>>), "Array")
    [] T.t = "Tuple1" ->
         LET r == IF m = "owned" THEN next_element_seed(visitor)
                                 ELSE next_element_seed_ref(visitor)
             elem == deserialize(m, cfg, T.of, r.value.v)
         IN  IF ~r.value.some
               THEN [de |-> r.self, out |-> Err(invalid_length(0, "a tuple of size 1"))]
               ELSE [de |-> r.self,
                     out |-> IF elem.st = "ok" THEN Ok(Array(<<elem.v>>)) ELSE elem]
    [] OTHER -> [de |-> visitor, out |-> Err(invalid_type(Unexpected("Seq"), T.t))]

\* visit_map of each target's visitor, on the cursor `visitor`
visit_map(m, cfg, T, visitor) ==
  CASE T.t = "DType" -> DTypeVisitor_visit_map(m, cfg, visitor)
    [] T.t = "Map" -> Collected(next_entries(m, cfg, T.of, visitor, <<>>), "Object")
    [] OTHER -> [de |-> visitor, out |-> Err(invalid_type(Unexpected("Map"), T.t))]

\* T::deserialize(v): the request, then the visitor's callback; visit_array
\* and visit_object check the cursor once visit_seq / visit_map returned Ok
deserialize(m, cfg, T, v) ==
  LET step == Request(m, cfg, T, v)
  IN  CASE step.k = "fail" -> Err(step.e)
        [] step.k = "todo" -> Abort
        [] step.k = "visit" -> visit_scalar(T, step.cb, step.arg)
        [] step.k = "visit_some" ->
             IF T.t = "Option"
               THEN MapSome(deserialize(m, cfg, T.of, step.self))
               ELSE Err(invalid_type(Unexpected("Option"), T.t))
        [] step.k = "visit_array" ->
             LET seq == visit_seq(m, cfg, T,
                                  IF m = "owned" THEN SeqDeserializer_new(step.array)
                                                 ELSE SeqRefDeserializer_new(step.array))
             IN  IF seq.out.st # "ok"
                   THEN seq.out
                   ELSE IF m = "owned"
                     THEN visit_array(Len(step.array), seq.de, seq.out.v)
                     ELSE visit_array_ref(Len(step.array), seq.de, seq.out.v)
        [] step.k = "visit_object" ->
             LET map == visit_map(m, cfg, T,
                                  IF m = "owned" THEN MapDeserializer_new(step.object)
                                                 ELSE MapRefDeserializer_new(step.object))
             IN  IF map.out.st # "ok"
                   THEN map.out
                   ELSE IF m = "owned"
                     THEN visit_object(Len(step.object), map.de, map.out.v)
                     ELSE visit_object_ref(Len(step.object), map.de, map.out.v)

\* the trees handed to these targets: every tree of the model, and Objects
\* that carry a capsule token as a key
CapsuleTrees ==
  {Object(<<<<NumberToken, String("7")>>>>),
   Object(<<<<NumberToken, Null>>>>),
   Object(<<<<NumberToken, String("7")>>, <<"A", Null>>>>),
   Object(<<<<"A", Null>>, <<NumberToken, String("7")>>>>),
   Object(<<<<RawToken, String("A")>>>>),
   Object(<<<<"A", Number(0)>>, <<RawToken, String("A")>>>>),
   Array(<<Object(<<<<NumberToken, String("0")>>>>)>>)}
FromTrees == Values \cup CapsuleTrees

\* a caller holds `tree` (pc = "holding") and decodes it: by reference, as
\* often as it likes, and at last by value, which moves the tree away.  Each
\* run is a call of its own; one that aborted is followed by the next as
\* under catch_unwind.
InitFrom ==
  /\ tree \in FromTrees
  /\ mode = "borrowed"
  /\ features \in FeatureSets
  /\ pc = "holding"
  /\ handle = Some(tree)
  /\ cur = NoCursor
  /\ access = NoAccess
  /\ frames = <<>>
  /\ ret = NoRet
  /\ ev = [op |-> "init"]

\* T::deserialize(&tree)
FromRef(T) ==
  /\ pc = "holding"
  /\ handle.some
  /\ LET out == deserialize("borrowed", features, T, handle.v)
     IN  /\ ret' = out
         /\ ev' = [op |-> "deserialize(&tree)", T |-> T, self |-> handle.v, out |-> out,
                   prev |-> IF ev.op = "deserialize(&tree)" /\ ev.T = T
                              THEN Some(ev.out) ELSE None]
  /\ mode' = "borrowed"
  /\ UNCHANGED <<tree, features, pc, handle, cur, access, frames>>

\* T::deserialize(tree)
FromOwned(T) ==
  /\ pc = "holding"
  /\ handle.some
  /\ LET out == deserialize("owned", features, T, handle.v)
     IN  /\ ret' = out
         /\ ev' = [op |-> "deserialize(tree)", T |-> T, self |-> handle.v, out |-> out,
                   borrowed |-> IF ev.op = "deserialize(&tree)" /\ ev.T = T
                                  THEN Some(ev.out) ELSE None]
  /\ mode' = "owned"
  /\ pc' = "moved"
  /\ handle' = None
  /\ UNCHANGED <<tree, features, cur, access, frames>>

NextFrom ==
  \/ \E T \in Shapes : FromRef(T)
  \/ \E T \in Shapes : FromOwned(T)

SpecFrom == InitFrom /\ [][NextFrom]_vars

----------------------------------------------------------------------------
(* The error kinds of the specification, read off the engine's errors.     *)

TypeMismatch(e) == e.ctor = "invalid_type"
ExcessElements(e, n) == e.ctor = "invalid_length" /\ e.len = n
MissingValue(e) == e.ctor = "custom" /\ e.msg = "value is missing"
InvalidVariantEncoding(e) == e.ctor = "invalid_value" /\ e.unexp.kind = "Map"
UnknownVariant(e, name) == e.ctor = "unknown_variant" /\ e.name = name
MissingPayload(e) == e.ctor = "invalid_type" /\ e.unexp.kind = "UnitVariant"

\* the call that just finished returned `out`: to the caller, or to the code
\* driving the cursor it was decoding an element or a value of
Returned(out) ==
  /\ pc \in {"done", "seq", "map"}
  /\ ret = IF pc = "seq" THEN MapSome(out) ELSE out

----------------------------------------------------------------------------
(* Claims.                                                                 *)

\* C1: sequence exact-consumption, owned and borrowed.  When a target that
\* made M next_element requests on the cursor of an Array of length N returns
\* Ok(seq), the decode returns Ok(seq) if M >= N and fails with
\* ExcessElements(N) -- the original length, not the N-M left -- if M < N;
\* a request made once the N elements are gone is answered Ok(None).
C1_SeqExactConsumption ==
  /\ ev.op = "visit_array" =>
       LET N == Len(ev.src)
           M == ev.asked
       IN  /\ ev.before.len = N
           /\ (Len(ev.before.de.iter) = 0) = (M >= N)
           /\ M >= N => ev.out = Ok(ev.seq)
           /\ M < N => ev.out.st = "err" /\ ExcessElements(ev.out.e, N)
           /\ Returned(ev.out)
  /\ (ev.op = "next_element_seed" /\ ev.before.asked >= ev.before.len) =>
       pc = "seq" /\ ret = Ok(None) /\ cur.de = ev.before.de

\* C1 witness: a borrowed decode of a 2-element Array whose target asked for
\* one element and returned successfully
C1_Witness ==
  /\ mode = "borrowed"
  /\ ev.op = "visit_array"
  /\ Len(ev.src) = 2
  /\ ev.asked = 1
  /\ pc = "done"
  /\ ret.st = "err"

\* C2: map exact-consumption, owned and borrowed.  When a target that made M
\* next_key calls on the cursor of an Object of N entries returns Ok(map),
\* the decode fails with ExcessElements(N) if M < N and returns Ok(map) once
\* the cursor is drained; an Object of zero entries always decodes.
C2_MapExactConsumption ==
  ev.op = "visit_object" =>
    LET N == Len(ev.src)
        M == ev.asked
    IN  /\ ev.before.len = N
        /\ (Len(ev.before.de.iter) = 0) = (M >= N)
        /\ M < N => ev.out.st = "err" /\ ExcessElements(ev.out.e, N)
        /\ M >= N => ev.out = Ok(ev.map)
        /\ N = 0 => ev.out = Ok(ev.map)
        /\ Returned(ev.out)

\* C2 witness: an owned decode of a 2-entry Object whose target stopped after
\* one key
C2_Witness ==
  /\ mode = "owned"
  /\ ev.op = "visit_object"
  /\ Len(ev.src) = 2
  /\ ev.asked = 1
  /\ pc = "done"
  /\ ret.st = "err"

\* C2, the empty Object: {} against a map-shaped target is an empty map
C2_EmptyObject ==
  /\ ev.op = "visit_object"
  /\ ev.src = <<>>
  /\ ev.before.origin = "deserialize_map"
  /\ pc = "done"
  /\ ret.st = "ok"

\* C3: on a map cursor, next_value fails with MissingValue unless a next_key
\* that successfully returned a key has happened since the cursor was made
\* and since the previous next_value (`armed`), also after a next_key whose
\* key decoding failed; otherwise it decodes the value paired with the key
\* most recently returned.
C3_NextValueNeedsReturnedKey ==
  ev.op = "next_value_seed" =>
    IF ev.before.armed
      THEN /\ pc = "de"
           /\ handle = Some(ev.before.src[ev.before.keyidx][2])
      ELSE /\ pc = "map"
           /\ ret.st = "err"
           /\ MissingValue(ret.e)

\* C3, what the code does: next_value fails with MissingValue exactly when no
\* next_key has taken a pair off the source since the cursor was made and
\* since the previous next_value, whether or not that key then decoded
C3_NextValueNeedsTakenPair ==
  ev.op = "next_value_seed" =>
    IF ev.before.de.value.some
      THEN pc = "de" /\ handle = ev.before.de.value
      ELSE pc = "map" /\ ret.st = "err" /\ MissingValue(ret.e)

\* C4: the wire convention of deserialize_enum, owned and borrowed.  A String
\* is (name = the text, no payload); an Object of one entry is (name = its
\* key, payload = its value); an Object of zero or of several entries fails
\* with InvalidVariantEncoding, every other variant with TypeMismatch, both
\* without the visitor being called.
C4_EnumWireConvention ==
  ev.op = "deserialize_enum" =>
    LET v == ev.self
    IN  CASE v.tag = "String" ->
               pc = "enum" /\ access.variant = v.s /\ access.value = None
          [] v.tag = "Object" /\ Len(v.entries) = 1 ->
               /\ pc = "enum"
               /\ access.variant = v.entries[1][1]
               /\ access.value = Some(v.entries[1][2])
          [] v.tag = "Object" /\ Len(v.entries) # 1 ->
               /\ ev.step.k = "fail"
               /\ InvalidVariantEncoding(ev.step.e)
               /\ Returned(Err(ev.step.e))
          [] OTHER ->
               /\ ev.step.k = "fail"
               /\ TypeMismatch(ev.step.e)
               /\ Returned(Err(ev.step.e))

\* C4 witness: a borrowed Object of two entries asked for as an enum
C4_Witness ==
  /\ mode = "borrowed"
  /\ ev.op = "deserialize_enum"
  /\ ev.self.tag = "Object"
  /\ Len(ev.self.entries) = 2
  /\ pc = "done"
  /\ ret.st = "err"

\* C5 as stated: whenever the resolved name is not in the variant list the
\* target declared for the call, the decode fails with UnknownVariant(name).
C5_NameCheckedAgainstDeclared ==
  (ev.op = "variant_seed" /\ ev.variant \notin ev.variants) =>
    /\ pc # "variant"
    /\ ret.st = "err"
    /\ UnknownVariant(ret.e, ev.variant)

\* C5 amended: the resolved name goes to the target's variant-identifier
\* seed before any payload is decoded, and the engine never reads the
\* declared list.  Whenever the seed rejects the name -- as the seed of a
\* target without a catch-all does for every name outside its list -- the
\* decode fails with the seed's error, UnknownVariant(name), whatever the
\* payload; a name the seed accepts is decoded, declared or not.
C5_NameCheckedBySeed ==
  ev.op = "variant_seed" =>
    /\ (~ev.other /\ ev.variant \notin ev.variants) =>
         ev.seeded.st = "err" /\ UnknownVariant(ev.seeded.e, ev.variant)
    /\ IF ev.seeded.st = "err"
         THEN /\ Returned(ev.seeded)
              /\ handle = None
              /\ access = NoAccess
         ELSE /\ pc = "variant"
              /\ access.value = ev.value
              /\ handle = None

\* C5 witness: an undeclared name that carries a payload is rejected
C5_Witness ==
  /\ ev.op = "variant_seed"
  /\ ev.variant \notin ev.variants
  /\ ~ev.other
  /\ ev.value.some
  /\ pc = "done"
  /\ ret.st = "err"
  /\ UnknownVariant(ret.e, ev.variant)

\* C6: newtype variant, owned and borrowed.  With no payload (bare String)
\* the decode fails with MissingPayload; with a payload, Null included, the
\* inner target is handed the payload's own deserializer and whatever it
\* returns is returned (the call adds no frame and no check of its own).
C6_NewtypeVariant ==
  ev.op = "newtype_variant_seed" =>
    IF ev.value.some
      THEN /\ pc = "de"
           /\ handle = Some(ev.value.v)
           /\ ret = NoRet
           /\ Len(frames) = ev.depth
      ELSE /\ ev.step.k = "fail"
           /\ MissingPayload(ev.step.e)
           /\ Returned(Err(ev.step.e))

\* C6 witness: {"A": null} decoded as a newtype variant hands Null on
C6_Witness ==
  /\ ev.op = "newtype_variant_seed"
  /\ ev.value = Some(Null)
  /\ pc = "de"
  /\ handle = Some(Null)

\* C6, the bare String: no payload, MissingPayload
C6_MissingPayload ==
  /\ ev.op = "newtype_variant_seed"
  /\ ~ev.value.some
  /\ pc = "done"
  /\ ret.st = "err"
  /\ MissingPayload(ret.e)

\* C7: tuple variant, owned and borrowed.  No payload, or a payload that is
\* not an Array, fails; a non-empty Array opens a sequence cursor over its
\* elements, and a target that then returns after fewer requests than
\* elements fails with ExcessElements; an empty Array calls visit_unit and
\* opens no cursor.
C7_TupleVariant ==
  /\ ev.op = "tuple_variant" =>
       CASE ev.value.some /\ ev.value.v.tag = "Array" /\ Len(ev.value.v.items) > 0 ->
              /\ pc = "seq"
              /\ cur.de.iter = ev.value.v.items
              /\ cur.len = Len(ev.value.v.items)
              /\ cur.origin = "tuple_variant"
         [] ev.value.some /\ ev.value.v.tag = "Array" /\ Len(ev.value.v.items) = 0 ->
              /\ ev.step = Visit("visit_unit", Null)
              /\ Returned(Ok(Echo("visit_unit", Null)))
         [] OTHER ->
              /\ ev.step.k = "fail"
              /\ TypeMismatch(ev.step.e)
              /\ Returned(Err(ev.step.e))
  /\ (ev.op = "visit_array" /\ ev.before.origin = "tuple_variant"
        /\ ev.asked < Len(ev.src)) =>
       ev.out.st = "err" /\ ExcessElements(ev.out.e, Len(ev.src))

\* C7 witness: {"A": []} decoded as a tuple variant, borrowed
C7_Witness ==
  /\ mode = "borrowed"
  /\ ev.op = "tuple_variant"
  /\ ev.value = Some(Array(<<>>))
  /\ pc = "done"
  /\ ret = Ok(Echo("visit_unit", Null))

\* C7, the cursor: a tuple variant of arity 1 against a payload of 2 elements
C7_ExcessElements ==
  /\ ev.op = "visit_array"
  /\ ev.before.origin = "tuple_variant"
  /\ ev.asked = 1
  /\ Len(ev.src) = 2
  /\ ret.st = "err"

\* C8: struct variant, owned and borrowed.  Only an Object payload opens a
\* map cursor; no payload and every other payload, an Array included, fail
\* with TypeMismatch without the visitor being called -- while
\* deserialize_struct opens a sequence cursor on an Array.
C8_StructVariant ==
  /\ ev.op = "struct_variant" =>
       IF ev.value.some /\ ev.value.v.tag = "Object"
         THEN /\ pc = "map"
              /\ cur.de.iter = ev.value.v.entries
              /\ cur.len = Len(ev.value.v.entries)
              /\ cur.origin = "struct_variant"
         ELSE /\ ev.step.k = "fail"
              /\ TypeMismatch(ev.step.e)
              /\ Returned(Err(ev.step.e))
  /\ (ev.op = "deserialize_struct" /\ ev.self.tag = "Array") =>
       pc = "seq" /\ cur.de.iter = ev.self.items
  /\ (ev.op = "visit_object" /\ ev.before.origin = "struct_variant"
        /\ ev.asked < Len(ev.src)) =>
       ev.out.st = "err" /\ ExcessElements(ev.out.e, Len(ev.src))

\* C8 witness: an Array payload is refused by struct_variant
C8_Witness ==
  /\ ev.op = "struct_variant"
  /\ ev.value.some
  /\ ev.value.v.tag = "Array"
  /\ pc = "done"
  /\ ret.st = "err"
  /\ TypeMismatch(ret.e)

\* C9: unit variant, owned and borrowed.  With no payload the decode
\* succeeds; a payload is decoded against the unit shape and dropped: Null
\* succeeds, every other variant fails with TypeMismatch.
C9_UnitVariant ==
  ev.op = "unit_variant" =>
    /\ Returned(ev.out)
    /\ IF ~ev.value.some \/ ev.value.v.tag = "Null"
         THEN ev.out = Ok(Unit)
         ELSE /\ ev.out.st = "err"
              /\ TypeMismatch(ev.out.e)
              /\ ev.out.e.unexp = unexpected(ev.value.v)

\* C9 witness: {"A": 0} decoded as a unit variant, borrowed
C9_Witness ==
  /\ mode = "borrowed"
  /\ ev.op = "unit_variant"
  /\ ev.value = Some(Number(0))
  /\ pc = "done"
  /\ ret.st = "err"

\* C10: option, owned and borrowed.  Null calls visit_none; every other
\* variant -- zero, "", [], {} and DateTime included -- calls visit_some with
\* the deserializer of the very same value.
C10_Option ==
  ev.op = "deserialize_option" =>
    IF ev.self.tag = "Null"
      THEN Returned(Ok(Echo("visit_none", Null)))
      ELSE /\ ev.step = VisitSome(ev.self)
           /\ pc = "de"
           /\ handle = Some(ev.self)

\* C10 witness: "" is present, and is the payload
C10_Witness ==
  /\ ev.op = "deserialize_option"
  /\ ev.self = String("")
  /\ pc = "de"
  /\ handle = Some(String(""))

\* C10, the other falsy values and the absent one
C10_Cases ==
  /\ ev.op = "deserialize_option"
  /\ ev.self \in {Number(0), Array(<<>>), Object(<<>>), DateTime, Null}

----------------------------------------------------------------------------
(* What a key text denotes, independently of the digit loop.               *)

\* an optional sign ('-' only where the type is signed) and then digits
IsNumeral(chars, signed) ==
  LET body == IF chars # <<>> /\ (chars[1] = "+" \/ (signed /\ chars[1] = "-"))
                THEN Tail(chars) ELSE chars
  IN  body # <<>> /\ \A i \in 1..Len(body) : body[i] \in DOMAIN to_digit

RECURSIVE PlaceValue(_)
PlaceValue(digits) ==
  IF digits = <<>> THEN 0
  ELSE to_digit[Head(digits)] * 10 ^ (Len(digits) - 1) + PlaceValue(Tail(digits))

NumeralValue(chars) ==
  CASE chars[1] = "-" -> 0 - PlaceValue(Tail(chars))
    [] chars[1] = "+" -> PlaceValue(Tail(chars))
    [] OTHER -> PlaceValue(chars)

\* C11: key coercion.  A key seed that asks the key decoder for an integer of
\* width W is handed the key parsed as a W-width integer (visit_iW / visit_uW)
\* when the text is a numeral in the range of W; when it is not (not a numeral,
\* or out of range) it is handed the original text unchanged and the decoder
\* raises no error.  A seed that asks for text is handed the original text
\* unchanged ("42" stays the text "42").
C11_KeyCoercion ==
  /\ ev.op = "deserialize_integer_key" =>
       LET text == ev.self.key.s
           chars == Chars(text)
           ty == ev.ty
       IN  /\ pc = "done"
           /\ ret.st = "ok"
           /\ IF IsNumeral(chars, ty.signed)
                   /\ NumeralValue(chars) >= MIN(ty) /\ NumeralValue(chars) <= MAX(ty)
                THEN ret.v = Echo(ty.visit, Integer(NumeralValue(chars)))
                ELSE /\ ret.v.cb \in {"visit_string", "visit_borrowed_str"}
                     /\ ret.v.arg = String(text)
  /\ (\/ ev.op = "MapKeyDeserializer::deserialize_any"
      \/ (/\ ev.op = "forward_to_deserialize_any"
          /\ ev.method \in {"deserialize_str", "deserialize_string",
                            "deserialize_identifier"})) =>
       /\ pc = "done"
       /\ ret.st = "ok"
       /\ ret.v.cb \in {"visit_string", "visit_borrowed_str"}
       /\ ret.v.arg = String(ev.self.key.s)

\* C11 witness: the key "256" asked for as a u8 (out of range) came back as text
C11_Witness ==
  /\ ev.op = "deserialize_integer_key"
  /\ ev.self.key.s = "256"
  /\ ev.ty.visit = "visit_u8"
  /\ ret = Ok(Echo("visit_string", String("256")))

\* C11: the key "42" asked for as a u8 came back as the integer 42, and the
\* key "-129" asked for as an i8 as text
C11_Parsed ==
  /\ ev.op = "deserialize_integer_key"
  /\ \/ ev.self.key.s = "42" /\ ret = Ok(Echo("visit_u8", Integer(42)))
     \/ ev.self.key.s = "-129" /\ ev.ty.visit = "visit_i8" /\ ret.v.arg = String("-129")

\* the shapes of the acceptance table, by the method that requests them, and
\* the variants each is accepted on
TableAccepts ==
  [deserialize_bool |-> {"Boolean"},
   deserialize_string |-> {"String"},
   deserialize_str |-> {"String"},
   deserialize_char |-> {"String"},
   deserialize_identifier |-> {"String"},
   deserialize_unit |-> {"Null"},
   deserialize_seq |-> {"Array"},
   deserialize_tuple |-> {"Array"},
   deserialize_tuple_struct |-> {"Array"},
   deserialize_map |-> {"Object"},
   deserialize_struct |-> {"Object", "Array"},
   deserialize_bytes |-> {"String", "Array"},
   deserialize_byte_buf |-> {"String", "Array"}]

\* the request that ran last is a row of the table and was refused
TableMismatch ==
  /\ ev.op \in DOMAIN TableAccepts
  /\ ev.self.tag \notin TableAccepts[ev.op]

\* what a mismatch reports as found: the variant, and the scalar itself for
\* a Boolean, a Number or a String; nothing below an Array or an Object
FoundDescription(v) ==
  CASE v.tag = "Null" -> [kind |-> "Unit"]
    [] v.tag = "Boolean" -> [kind |-> "Bool", b |-> v.b]
    [] v.tag = "Number" -> [kind |-> "Number", n |-> v.n]
    [] v.tag = "String" -> [kind |-> "Str", s |-> v.s]
    [] v.tag = "Array" -> [kind |-> "Seq"]
    [] v.tag = "Object" -> [kind |-> "Map"]
    [] v.tag = "DateTime" -> [kind |-> "Other(datetime)"]

\* one value of each variant
Representative(tag) ==
  CASE tag = "Null" -> Null
    [] tag = "Boolean" -> Boolean(TRUE)
    [] tag = "Number" -> Number(0)
    [] tag = "String" -> String("")
    [] tag = "Array" -> Array(<<>>)
    [] tag = "Object" -> Object(<<>>)
    [] tag = "DateTime" -> DateTime

\* C13 as stated: a refused request fails with a TypeMismatch whose
\* found-description is the same for every value of the variant (it is the
\* one reported for the variant's representative).  Violated: the description
\* of a String or a Number carries the scalar.
C13_FoundByVariantAlone ==
  TableMismatch =>
    /\ ev.step.k = "fail"
    /\ TypeMismatch(ev.step.e)
    /\ ev.step.e.unexp = FoundDescription(Representative(ev.self.tag))

\* C13 (amended): acceptance table of the explicitly requested shapes, owned
\* and borrowed.  bool is accepted only on Boolean; string, str, char and
\* identifier only on String; unit only on Null; seq, tuple and tuple_struct
\* only on Array; map only on Object; struct on Object or Array; bytes and
\* byte_buf on String or Array.  An accepted request reaches the target (a
\* callback or a cursor); every other request returns, without calling the
\* target, a TypeMismatch whose found-description is fixed by the top-level
\* node alone: its variant and, for a scalar, its own value.
C13_AcceptanceTable ==
  /\ (ev.op \in DOMAIN TableAccepts /\ ev.self.tag \in TableAccepts[ev.op]) =>
       ev.step.k \in {"visit", "visit_array", "visit_object"}
  /\ TableMismatch =>
       /\ ev.step.k = "fail"
       /\ TypeMismatch(ev.step.e)
       /\ ev.step.e.unexp = FoundDescription(ev.self)
       /\ Returned(Err(ev.step.e))

\* C13 witness: a borrowed byte-sequence request refused on an Object
C13_Witness ==
  /\ mode = "borrowed"
  /\ ev.op = "deserialize_bytes"
  /\ ev.self.tag = "Object"
  /\ pc = "done"
  /\ ret.st = "err"

\* C13: a struct request accepted on an Array, and a char request refused on
\* a Number inside an Array
C13_Cases ==
  \/ ev.op = "deserialize_struct" /\ ev.self.tag = "Array" /\ pc = "seq"
  \/ ev.op = "deserialize_char" /\ ev.self.tag = "Number" /\ pc = "seq" /\ ret.st = "err"

\* what the probe path does with a value that is no Number, by its variant
ProbeRoute(v, step) ==
  CASE v.tag = "Null" -> step.k = "visit" /\ step.cb = "visit_unit"
    [] v.tag = "Boolean" ->
         step.k = "visit" /\ step.cb = "visit_bool" /\ step.arg = v
    [] v.tag = "String" ->
         /\ step.k = "visit"
         /\ step.cb = (IF mode = "owned" THEN "visit_string" ELSE "visit_borrowed_str")
         /\ step.arg = v
    [] v.tag = "Array" -> step.k = "visit_array" /\ step.array = v.items
    [] v.tag = "Object" -> step.k = "visit_object" /\ step.object = v.entries
    [] v.tag = "DateTime" -> step.k = "todo"

\* C14 as stated: in every build a request for an integer or float width on a
\* value that is no Number fails with TypeMismatch, no callback being invoked.
\* Violated in the builds with arbitrary_precision.
C14_NumberOnlyInEveryBuild ==
  (ev.op = "deserialize_number" /\ ev.self.tag # "Number") =>
    /\ ev.step.k = "fail"
    /\ TypeMismatch(ev.step.e)

\* C14 (amended): a request for an integer or float width, owned or borrowed.
\* On a Number it goes to the Number collaborator in every build.  On any
\* other value a build without arbitrary_precision fails with TypeMismatch
\* and calls nothing of the target; a build with arbitrary_precision takes the
\* probe path instead: the callback of the value's own variant is invoked
\* (unit, bool, text, a sequence or map cursor) and a DateTime aborts.
C14_NumberRequest ==
  ev.op = "deserialize_number" =>
    /\ ev.self.tag = "Number" =>
         /\ ev.step.k = "visit"
         /\ ev.step.cb = (IF features.arbitrary_precision THEN "Number::$method"
                                                          ELSE "Number::deserialize_any")
         /\ ev.step.arg = ev.self
    /\ (ev.self.tag # "Number" /\ ~features.arbitrary_precision) =>
         /\ ev.step.k = "fail"
         /\ TypeMismatch(ev.step.e)
         /\ ev.step.e.unexp = FoundDescription(ev.self)
         /\ Returned(Err(ev.step.e))
    /\ (ev.self.tag # "Number" /\ features.arbitrary_precision) =>
         /\ ProbeRoute(ev.self, ev.step)
         /\ ev.self.tag = "DateTime" => pc = "panic"
         /\ ev.self.tag \in {"Null", "Boolean", "String"} =>
              Returned(Ok(Echo(ev.step.cb, ev.step.arg)))

\* C14 witness: in a borrowed arbitrary_precision build a number request on a
\* String called the text callback, and the decode succeeded
C14_Witness ==
  /\ features.arbitrary_precision
  /\ mode = "borrowed"
  /\ ev.op = "deserialize_number"
  /\ ev.self.tag = "String"
  /\ pc = "done"
  /\ ret.st = "ok"
  /\ ret.v.cb = "visit_borrowed_str"

\* C14: without arbitrary_precision the same request is refused
C14_Refused ==
  /\ ~features.arbitrary_precision
  /\ ev.op = "deserialize_number"
  /\ ev.self.tag = "String"
  /\ pc = "done"
  /\ ret.st = "err"

\* two runs ended alike: both Ok with equal results, both Err with the same
\* error kind, or both aborted
SameOutcome(b, o) ==
  /\ b.st = o.st
  /\ o.st = "ok" => b.v = o.v
  /\ o.st = "err" => b.e.ctor = o.e.ctor

\* the target takes text only as a borrow of the input (&'de str)
WantsBorrowedText(T) ==
  T.t = "&str" \/ (T.t \in {"Option", "Vec", "Tuple1", "Map"} /\ T.of.t = "&str")

\* C12 as stated: decoding the same tree into the same target by reference
\* and by value ends alike: success exactly together with equal results, the
\* same error kind otherwise.  Violated by a target that borrows its text.
C12_OwnedBorrowedAlike ==
  (ev.op = "deserialize(tree)" /\ ev.borrowed.some) =>
    SameOutcome(ev.borrowed.v, ev.out)

\* C12 (amended): whenever the owned decode of a tree succeeds, the borrowed
\* decode of the same tree into the same target succeeds with an equal
\* result, and the two end alike (equal result, same error kind, or both
\* abort) for every target that takes owned and borrowed text alike.  Only a
\* target that takes text as a borrow of the input differs: the owned engine
\* hands it owned text and fails with TypeMismatch(found: that string),
\* whatever the borrowed engine returns.  A borrowed decode leaves the tree
\* with the caller, unmodified, and a second borrowed decode returns what
\* the first returned.
C12_OwnedBorrowed ==
  /\ (ev.op = "deserialize(tree)" /\ ev.borrowed.some) =>
       /\ \/ SameOutcome(ev.borrowed.v, ev.out)
          \/ /\ WantsBorrowedText(ev.T)
             /\ ev.out.st = "err"
             /\ TypeMismatch(ev.out.e)
             /\ ev.out.e.unexp.kind = "Str"
       /\ pc = "moved"
       /\ ~handle.some
  /\ ev.op = "deserialize(&tree)" =>
       /\ pc = "holding"
       /\ handle = Some(tree)
       /\ ev.self = tree
       /\ ev.prev.some => ev.out = ev.prev.v

\* C12 witness: a two-entry Object decoded into a DType by reference and then
\* by value, both successfully
C12_Witness ==
  /\ ev.op = "deserialize(tree)"
  /\ ev.borrowed.some
  /\ ev.T = DTypeT
  /\ tree.tag = "Object"
  /\ Len(tree.entries) = 2
  /\ ev.out.st = "ok"
  /\ ev.borrowed.v.st = "ok"

\* C12: a length error in both modes, and a second borrowed run
C12_Cases ==
  \/ /\ ev.op = "deserialize(tree)" /\ ev.borrowed.some
     /\ ev.out.st = "err" /\ ev.out.e.ctor = "invalid_length"
     /\ ev.borrowed.v = ev.out
  \/ /\ ev.op = "deserialize(&tree)" /\ ev.prev.some /\ ev.out.st = "ok"
     /\ tree.tag = "Array"

\* a run of the Value target (Deserialize for DType), by reference or by value
ValueRun ==
  /\ ev.op \in {"deserialize(&tree)", "deserialize(tree)"}
  /\ ev.T = DTypeT

\* the key is a capsule token of a feature the build has
EnabledToken(key, cfg) ==
  \/ cfg.arbitrary_precision /\ key = NumberToken
  \/ cfg.raw_value /\ key = RawToken

RECURSIVE NoDateTime(_)
NoDateTime(v) ==
  CASE v.tag = "DateTime" -> FALSE
    [] v.tag = "Array" -> \A i \in 1..Len(v.items) : NoDateTime(v.items[i])
    [] v.tag = "Object" -> \A i \in 1..Len(v.entries) : NoDateTime(v.entries[i][2])
    [] OTHER -> TRUE

\* no Object of the tree begins with a capsule token the build looks for
RECURSIVE NoEnabledCapsule(_, _)
NoEnabledCapsule(v, cfg) ==
  CASE v.tag = "Array" -> \A i \in 1..Len(v.items) : NoEnabledCapsule(v.items[i], cfg)
    [] v.tag = "Object" ->
         /\ Len(v.entries) > 0 => ~EnabledToken(v.entries[1][1], cfg)
         /\ \A i \in 1..Len(v.entries) : NoEnabledCapsule(v.entries[i][2], cfg)
    [] OTHER -> TRUE

\* C15: key classification neither loses nor duplicates the first entry.
\* When the Value target reads an Object of N >= 0 pairs (distinct keys) whose
\* first key is not a capsule token enabled in the build, and every value
\* decodes, the result is an Object of exactly those N pairs, each once and in
\* source order, the first among them; N = 0 gives the empty Object, not an
\* error.  A value that does not decode leaves no Object at all.
C15_FirstEntryKept ==
  (/\ ValueRun
   /\ ev.self.tag = "Object"
   /\ Len(ev.self.entries) > 0 => ~EnabledToken(ev.self.entries[1][1], features)) =>
    LET src == ev.self.entries
        N == Len(src)
    IN  IF \A i \in 1..N : NoDateTime(src[i][2]) /\ NoEnabledCapsule(src[i][2], features)
          THEN /\ ev.out.st = "ok"
               /\ ev.out.v.tag = "Object"
               /\ Len(ev.out.v.entries) = N
               /\ \A i \in 1..N : ev.out.v.entries[i] = src[i]
          ELSE ev.out.st # "ok"

\* C15 witness: a two-pair Object read by value, with a capsule token that
\* the build does not look for as its second key
C15_Witness ==
  /\ ValueRun
  /\ mode = "owned"
  /\ ~features.arbitrary_precision
  /\ ev.self = Object(<<<<"A", Null>>, <<NumberToken, String("7")>>>>)
  /\ ev.out = Ok(ev.self)

\* C15: the empty Object
C15_Empty ==
  /\ ValueRun
  /\ ev.self = Object(<<>>)
  /\ ev.out = Ok(Object(<<>>))

\* C16: capsule tokens are guarded by their feature.  An Object whose first
\* key is the number token is read as a Number -- the one its text denotes, or
\* an error, never an Object -- exactly in the builds with arbitrary_precision,
\* and one whose first key is the raw token is read as the document of its
\* text exactly in the builds with raw_value; in every other build such an
\* Object decodes as an ordinary Object holding that key and its value.
C16_CapsuleGuarded ==
  (ValueRun /\ ev.self.tag = "Object" /\ Len(ev.self.entries) > 0) =>
    LET key == ev.self.entries[1][1]
        value == ev.self.entries[1][2]
        alone == Len(ev.self.entries) = 1
    IN  /\ (key = NumberToken /\ features.arbitrary_precision) =>
             /\ ev.out.st = "ok" => ev.out.v.tag = "Number"
             /\ (alone /\ value = String("7")) => ev.out = Ok(Number(7))
        /\ (key = RawToken /\ features.raw_value
                /\ ~(features.arbitrary_precision /\ key = NumberToken)) =>
             /\ ev.out.st = "ok" => ev.out.v.tag = "crate::from_str"
             /\ (alone /\ value.tag = "String") =>
                  ev.out = Ok([tag |-> "crate::from_str", text |-> value.s])
        /\ (key \in {NumberToken, RawToken} /\ ~EnabledToken(key, features)) =>
             ev.out = Ok(ev.self)

\* C16 witness: the number capsule read as the Number 7 in a borrowed run of
\* an arbitrary_precision build
C16_Witness ==
  /\ ValueRun
  /\ mode = "borrowed"
  /\ features.arbitrary_precision
  /\ ev.self = Object(<<<<NumberToken, String("7")>>>>)
  /\ ev.out = Ok(Number(7))

\* C16: the same Object in a build without the feature, and the raw capsule
C16_Cases ==
  /\ ValueRun
  /\ \/ /\ ~features.arbitrary_precision
        /\ ev.self = Object(<<<<NumberToken, String("7")>>>>)
        /\ ev.out = Ok(ev.self)
     \/ /\ features.raw_value
        /\ ev.self = Object(<<<<RawToken, String("A")>>>>)
        /\ ev.out.v.tag = "crate::from_str"

\* C19 as stated: every tree without a DateTime decodes, by value or by
\* reference, into a DType equal to itself.  Violated in the builds that
\* look for a capsule token.
C19_RoundTripEveryTree ==
  (ValueRun /\ NoDateTime(ev.self)) => ev.out = Ok(ev.self)

\* C19 (amended): round-trip identity.  Every tree without a DateTime node
\* and without an Object whose first key is a capsule token enabled in the
\* build decodes, by value or by reference, into a DType equal to itself:
\* same variant at every node, same element order, same keys, values and
\* key order.
C19_RoundTrip ==
  (ValueRun /\ NoDateTime(ev.self) /\ NoEnabledCapsule(ev.self, features)) =>
    ev.out = Ok(ev.self)

\* C19 witness: an Array holding an Object came back equal, by reference
C19_Witness ==
  /\ ValueRun
  /\ mode = "borrowed"
  /\ ev.self = Array(<<Array(<<Null>>), Boolean(TRUE)>>)
  /\ ev.out = Ok(ev.self)

\* C19: two-entry Objects and Strings come back equal too
C19_Cases ==
  /\ ValueRun
  /\ ev.out = Ok(ev.self)
  /\ \/ ev.self.tag = "Object" /\ Len(ev.self.entries) = 2
     \/ ev.self = String("A")

\* C17: the probe path, owned and borrowed.  deserialize_any hands Null to
\* visit_unit, a Boolean to visit_bool, a Number to the Number collaborator,
\* a String to the string callback, and opens a sequence cursor over an
\* Array and a map cursor over an Object; on a DateTime, at the top level or
\* below any number of cursors, the whole decode aborts: every suspended
\* cursor is gone and the call has neither a result nor an error.
C17_ProbePath ==
  /\ ev.op = "deserialize_any" =>
       /\ ev.self.tag = "Number" => ev.step = NumberAny(ev.self.n)
       /\ ev.self.tag # "Number" => ProbeRoute(ev.self, ev.step)
       /\ ev.self.tag = "Array" =>
            pc = "seq" /\ cur.kind = "seq" /\ cur.de.iter = ev.self.items
       /\ ev.self.tag = "Object" =>
            pc = "map" /\ cur.kind = "map" /\ cur.de.iter = ev.self.entries
       /\ ev.self.tag \in {"Null", "Boolean", "Number", "String"} =>
            /\ pc \in {"done", "seq", "map"}
            /\ ret.st = "ok"
       /\ ev.self.tag = "DateTime" => pc = "panic"
  /\ pc = "panic" => ret = NoRet /\ frames = <<>> /\ cur = NoCursor /\ ~handle.some

\* C17 witness: a DateTime two cursors deep aborted a borrowed decode
C17_Witness ==
  /\ ev.op = "deserialize_any"
  /\ ev.self = DateTime
  /\ tree = Array(<<Object(<<<<"A", DateTime>>>>)>>)
  /\ mode = "borrowed"
  /\ pc = "panic"
  /\ ret = NoRet

\* C17: the other routes -- a top-level DateTime, an Array, a String
C17_Cases ==
  /\ ev.op = "deserialize_any"
  /\ \/ ev.self = DateTime /\ tree = DateTime /\ pc = "panic"
     \/ ev.self.tag = "Array" /\ pc = "seq"
     \/ ev.self.tag = "Object" /\ pc = "map"
     \/ ev.self.tag = "String" /\ pc = "done"

\* C18: error propagation.  When the target's visit_seq or visit_map returns
\* an error -- one it got from decoding an element, a key or a value, at any
\* depth, or one of its own -- the deserialize call that opened the cursor
\* returns exactly that error: the remaining-elements check is not run, so
\* elements left in the cursor never turn it into ExcessElements, and there
\* is no partial result.  At the top level it is what the decode returns;
\* below, it is what the enclosing target code is handed in turn.
C18_ErrorPropagation ==
  ev.op \in {"visit_array tri!", "visit_object tri!"} =>
    /\ ret = Err(ev.e)
    /\ pc \in {"done", "seq", "map"}
    /\ pc = "done" => frames = <<>> /\ cur = NoCursor
    /\ pc # "done" => cur.kind = pc

\* C18 witness: the TypeMismatch raised on the Null inside the inner Array
\* came out of the top-level call unchanged, the outer cursor still holding
\* an element
C18_Witness ==
  /\ ev.op = "visit_array tri!"
  /\ tree = Array(<<Array(<<Null>>), Boolean(TRUE)>>)
  /\ Len(ev.before.de.iter) > 0
  /\ pc = "done"
  /\ ret.st = "err"
  /\ ret.e.ctor = "invalid_type"
  /\ ret.e.unexp = Unexpected("Unit")

\* C18: the same through a map cursor, with an entry left unread
C18_Map ==
  /\ ev.op = "visit_object tri!"
  /\ Len(ev.before.de.iter) > 0
  /\ pc = "done"
  /\ ret = Err(ev.e)
  /\ ret.e.ctor = "invalid_type"

Min(a, b) == IF a < b THEN a ELSE b

\* the cursor as a next_element_seed call left it
CursorAfter == IF pc = "de" THEN Head(frames) ELSE cur

\* C20: the cursor position, for sequence and map cursors in both modes.
\* After k deliveries out of N the hint is exactly N - k; the call after k
\* deliveries hands over the element, or the key and the buffered value of
\* the pair, at source index k (Array order, Map iteration order), so nothing
\* is delivered twice; and at k = N every call answers "exhausted" and
\* leaves the cursor as it was.
C20_CursorPosition ==
  /\ ev.op = "size_hint" =>
       ev.hint = Some(ev.before.len - Min(ev.before.asked, ev.before.len))
  /\ ev.op = "next_element_seed" =>
       LET k == ev.before.asked
           N == ev.before.len
       IN  IF k < N
             THEN /\ ev.value = Some(ev.before.src[k + 1])
                  /\ CursorAfter.de.iter = SubSeq(ev.before.src, k + 2, N)
             ELSE /\ ev.value = None
                  /\ ret = Ok(None)
                  /\ cur.de = ev.before.de
  /\ ev.op = "next_key_seed" =>
       LET k == ev.before.asked
           N == ev.before.len
       IN  IF k < N
             THEN /\ ev.key = Some(ev.before.src[k + 1][1])
                  /\ cur.de.value = Some(ev.before.src[k + 1][2])
                  /\ cur.de.iter = SubSeq(ev.before.src, k + 2, N)
             ELSE /\ ev.key = None
                  /\ ret = Ok(None)
                  /\ cur.de = ev.before.de

\* C20 witness: a second call on an exhausted sequence cursor of two
\* elements answered "exhausted" again and left the cursor untouched
C20_Witness ==
  /\ ev.op = "next_element_seed"
  /\ ev.before.len = 2
  /\ ev.before.asked = 3
  /\ ev.value = None
  /\ cur.de = ev.before.de

\* C20: the hint after one delivery out of two; the second pair of a map
C20_Cases ==
  \/ /\ ev.op = "size_hint"
     /\ ev.before.len = 2
     /\ ev.before.asked = 1
     /\ ev.hint = Some(1)
  \/ /\ ev.op = "next_key_seed"
     /\ ev.before.len = 2
     /\ ev.before.asked = 1
     /\ ev.key = Some(ev.before.src[2][1])
  \/ /\ ev.op = "next_key_seed"
     /\ ev.before.asked > ev.before.len
     /\ ev.key = None

\* the value slot of a map cursor that has been asked for `asked` keys: empty,
\* or the value of the pair delivered last
OnePending(c) ==
  \/ c.de.value = None
  \/ /\ c.asked >= 1
     /\ c.len >= 1
     /\ c.de.value = Some(c.src[Min(c.asked, c.len)][2])

\* C21: the map exact-consumption check counts keys only, owned and borrowed.
\* Whether visit_object / visit_object_ref succeeds depends on the number of
\* next_key calls alone: with every entry asked for it returns Ok(map) even
\* while a value the target never took is still in the buffer.  next_key puts
\* the value of the pair it delivers into the single value slot, over
\* whatever was left there; next_value hands out only the value of the pair
\* delivered last, so a skipped value is never decoded; and a cursor holds at
\* most that one pending value beside the pairs still in its iterator.
C21_KeysOnly ==
  /\ ev.op = "visit_object" =>
       /\ (ev.out = Ok(ev.map)) = (ev.asked >= Len(ev.src))
       /\ OnePending(ev.before)
  /\ ev.op = "next_key_seed" =>
       /\ ev.key.some => cur.de.value = Some(ev.before.src[ev.before.asked + 1][2])
       /\ OnePending(ev.before)
       /\ OnePending(cur)
  /\ ev.op = "next_value_seed" =>
       /\ OnePending(ev.before)
       /\ ev.value = ev.before.de.value
       /\ CursorAfter.de.value = None
       /\ CursorAfter.de.iter = ev.before.de.iter
  /\ pc = "map" =>
       /\ OnePending(cur)
       /\ cur.de.iter = SubSeq(cur.src, Min(cur.asked, cur.len) + 1, cur.len)
  /\ \A i \in 1..Len(frames) : frames[i].kind = "map" => OnePending(frames[i])

\* C21 witness: a borrowed decode of a two-entry Object succeeded although
\* the value of its last pair was never taken
C21_Witness ==
  /\ mode = "borrowed"
  /\ ev.op = "visit_object"
  /\ Len(ev.src) = 2
  /\ ev.before.de.value.some
  /\ pc = "done"
  /\ ret = Ok(ev.map)

\* C21: a next_key that found the first value still in the buffer replaced
\* it by the second
C21_Overwritten ==
  /\ ev.op = "next_key_seed"
  /\ ev.before.asked = 1
  /\ ev.before.len = 2
  /\ ev.before.de.value = Some(ev.before.src[1][2])
  /\ ev.before.src[1][2] # ev.before.src[2][2]
  /\ cur.de.value = Some(ev.before.src[2][2])

====
